---- MODULE Spec2Model ----
(***************************************************************************)
(* Record-enrichment pipeline of the baseball-injuries repository:         *)
(*   - the season metric calculators of injuries_clean.py,                 *)
(*   - the window expander compute_averages and the orchestrator main,     *)
(*   - the gap-filling script fill_missing_data.py.                        *)
(*                                                                         *)
(* Values.  A missing value (None, NaN) is the empty tuple.  A number is   *)
(* the reduced fraction <<n, d>>, so that means keep their exact value.    *)
(* A pitch mix is the 6-tuple of its percentages in hundredths of a        *)
(* percent, in the order of pitch_types.                                   *)
(***************************************************************************)
EXTENDS Integers, Sequences, FiniteSets, TLC

VARIABLES
    prog,              \* the program this behaviour runs: "main", "fill", "expand", "calc", "mix", "resolve", "pool", "robust"
    pc,                \* position of the program's main thread
    roster,            \* per row: Name, player_id, lahman_id, Injury_Year
    file,              \* processed_baseball_injuries.csv: [exists, cols, rows]
    filled,            \* processed_baseball_injuries_filled.csv, once written
    table,             \* the in-memory frame (cleaned_data / df_filled)
    tableAtStart,      \* the frame as the current run loaded it
    new_columns_added, \* main's flag: a column of avg_columns was missing
    pitching_reg,      \* the global Lahman Pitching table, or not loaded
    source,            \* per row: how the tracking source answered in this run
    status,            \* per row: state of the row's future / of the row's fill
    results,           \* per row: the tuple compute_averages returned
    calls,             \* per row: calculator invocations of the current run
    players_no_data,   \* the "no data" list of the current run
    writes,            \* number of writes of an output file in the current run
    cIn,               \* inputs of one calculator call (calculator specifications)
    cOut,              \* outcome of that call
    stats              \* the fill script's counters: stats[...]

vars == <<prog, pc, roster, file, filled, table, tableAtStart, new_columns_added,
          pitching_reg, source, status, results, calls, players_no_data, writes,
          cIn, cOut, stats>>

mainVars == <<pc, roster, file, filled, table, tableAtStart, new_columns_added,
              pitching_reg, source, status, results, calls, players_no_data, writes>>

-----------------------------------------------------------------------------
(* Values *)

None == <<>>

\* stats = {'total_missing_before': 0, 'total_missing_after': 0,
\*          'fields_filled': {}, 'players_updated': set()}
NoStats == [total_missing_before |-> 0, total_missing_after |-> 0,
            fields_filled |-> <<>>, players_updated |-> {}]

RECURSIVE GCD(_, _)
GCD(a, b) == IF b = 0 THEN a ELSE GCD(b, a % b)

Rat(n, d) == LET g == GCD(n, d) IN <<n \div g, d \div g>>

Num(k) == <<k, 1>>

notna(v) == v # None

\* a numeric field of an event row that is NaN
NA == -1

\* an ID argument that is the Python None
IdNone == -1

\* an ID cell of the frame that is missing (NaN after read_csv)
IdNaN == 0

Statcast_Start == 2015

-----------------------------------------------------------------------------
(* The tracking source: the answer of one pb.statcast_pitcher query is an   *)
(* exception, None, or a frame of event rows (possibly empty, possibly      *)
(* lacking a column).                                                       *)

AllCols == {"game_pk", "game_type", "pitch_type", "release_speed",
            "release_spin_rate", "inning"}

Row(pk, gt, inn, pt, speed, spin) ==
    [game_pk |-> pk, game_type |-> gt, inning |-> inn, pitch_type |-> pt,
     release_speed |-> speed, release_spin_rate |-> spin]

Raises == [kind |-> "raise", rows |-> <<>>, cols |-> AllCols]
NoFrame == [kind |-> "none", rows |-> <<>>, cols |-> AllCols]
Frame(rows, cols) == [kind |-> "data", rows |-> rows, cols |-> cols]

\* data is None or data.empty
NoData(resp) == resp.kind = "none" \/ Len(resp.rows) = 0

\* data[data['game_type'] == 'R']
RegularSeason(rows) == SelectSeq(rows, LAMBDA r : r.game_type = "R")

PlayoffTypes == {"D", "L", "W"}

\* data[data['game_type'].isin(['D', 'L', 'W'])]
Playoffs(rows) == SelectSeq(rows, LAMBDA r : r.game_type \in PlayoffTypes)

GamePks(rows) == {rows[k].game_pk : k \in DOMAIN rows}

\* groupby('game_pk').size().mean(): rows per game, averaged over the games
MeanPerGame(rows) == Rat(Len(rows), Cardinality(GamePks(rows)))

RECURSIVE SumSeq(_)
SumSeq(s) == IF s = <<>> THEN 0 ELSE Head(s) + SumSeq(Tail(s))

\* series.dropna()
DropNA(s) == SelectSeq(s, LAMBDA x : x # NA)

SpeedOf(rows) == [k \in DOMAIN rows |-> rows[k].release_speed]
SpinOf(rows) == [k \in DOMAIN rows |-> rows[k].release_spin_rate]

\* series.mean() of a non-empty series without NaN
Mean(s) == Rat(SumSeq(s), Len(s))

\* the outcome of one calculator call: the value returned (None when the call
\* raised), the number of tracking queries issued, whether the value was read
\* from a register row, and whether the call raised
Outc(v, q, g, x) == [value |-> v, queries |-> q, register |-> g, raised |-> x]

Undefined == Outc(None, 0, FALSE, FALSE)
Caught == Outc(None, 1, FALSE, FALSE)
Empty == Outc(None, 1, FALSE, FALSE)
Escapes == Outc(None, 1, FALSE, TRUE)
Tracked(v) == Outc(v, 1, FALSE, FALSE)
Registered(v) == Outc(v, 0, TRUE, FALSE)

-----------------------------------------------------------------------------
(* The register: pitching_reg is None until Pitching.csv is read. *)

NoReg == [loaded |-> FALSE, rows |-> {}]
Reg(rows) == [loaded |-> TRUE, rows |-> rows]

RegRow(id, year, stint, g, gs, sv, ipouts, bfp) ==
    [playerID |-> id, yearID |-> year, stint |-> stint, G |-> g, GS |-> gs,
     SV |-> sv, IPouts |-> ipouts, BFP |-> bfp]

\* pitching_reg[(playerID == lahman_id) & (yearID == season)]; NaN equals nothing
player_reg(reg, lahman_id, season) ==
    {r \in reg.rows : lahman_id # IdNaN /\ r.playerID = lahman_id /\ r.yearID = season}

\* player_reg[col].sum()
RECURSIVE SumCol(_, _)
SumCol(S, col) ==
    IF S = {} THEN 0
    ELSE LET r == CHOOSE r \in S : TRUE IN r[col] + SumCol(S \ {r}, col)

\* the sum returned as it is, negative or not
Unclamped(x) == x

\* int(x) if x > 0 else 0
NonNeg(x) == IF x > 0 THEN x ELSE 0

-----------------------------------------------------------------------------
(* The season metric calculators.  resp is the answer the tracking source   *)
(* gives if the call queries it; reg is the global pitching_reg.            *)

\* calculate_avg_pitches_playoff counting a season without playoff rows as 0
PlayoffZeroWithoutRows(resp, reg, player_id, lahman_id, season) ==
    IF season < Statcast_Start THEN Undefined
    ELSE IF resp.kind = "raise" THEN Caught
    ELSE IF NoData(resp) THEN Empty
    ELSE IF "game_type" \notin resp.cols THEN Caught
    ELSE IF "game_pk" \notin resp.cols THEN Caught
    ELSE Tracked(Rat(Len(Playoffs(resp.rows)),
                     IF Playoffs(resp.rows) = <<>> THEN 1
                     ELSE Cardinality(GamePks(Playoffs(resp.rows)))))

calculate_avg_pitches_playoff(resp, reg, player_id, lahman_id, season) ==
    IF season < Statcast_Start THEN Undefined
    ELSE IF resp.kind = "raise" THEN Caught
    ELSE IF NoData(resp) THEN Empty
    ELSE IF "game_type" \notin resp.cols THEN Caught
    ELSE IF Playoffs(resp.rows) = <<>> THEN Empty
    ELSE IF "game_pk" \notin resp.cols THEN Caught
    ELSE Tracked(MeanPerGame(Playoffs(resp.rows)))

\* the season calculate_pitches_first10.py queries
First10_Season == 2017

\* calculate_pitches_first10.py: the same aggregation for the season 2017,
\* without cutoff test; data.empty raises on None, inside the try
calculate_avg_pitches_playoff_2017(resp, player_id) ==
    IF resp.kind = "raise" THEN Caught
    ELSE IF resp.kind = "none" THEN Caught
    ELSE IF Len(resp.rows) = 0 THEN Empty
    ELSE IF "game_type" \notin resp.cols THEN Caught
    ELSE IF Playoffs(resp.rows) = <<>> THEN Empty
    ELSE IF "game_pk" \notin resp.cols THEN Caught
    ELSE Tracked(MeanPerGame(Playoffs(resp.rows)))

\* the register estimate (IPouts + BFP) / G of the seasons before 2015
RegisterPitches(rows) ==
    IF rows # {} /\ SumCol(rows, "G") > 0
    THEN Registered(Rat(SumCol(rows, "IPouts") + SumCol(rows, "BFP"), SumCol(rows, "G")))
    ELSE Undefined

\* calculate_avg_pitches_regular reading the register whatever the season
RegularAnySeason(resp, reg, player_id, lahman_id, season) ==
    IF reg.loaded /\ lahman_id # IdNone /\ player_reg(reg, lahman_id, season) # {}
    THEN RegisterPitches(player_reg(reg, lahman_id, season))
    ELSE IF season >= Statcast_Start
    THEN IF resp.kind = "raise" THEN Escapes
         ELSE IF NoData(resp) THEN Empty
         ELSE IF "game_type" \notin resp.cols THEN Escapes
         ELSE IF RegularSeason(resp.rows) = <<>> THEN Empty
         ELSE IF "game_pk" \notin resp.cols THEN Escapes
         ELSE Tracked(MeanPerGame(RegularSeason(resp.rows)))
    ELSE Undefined

\* the tracking branch has no try/except: what raises in it leaves the call
calculate_avg_pitches_regular(resp, reg, player_id, lahman_id, season) ==
    IF season < Statcast_Start /\ reg.loaded /\ lahman_id # IdNone
    THEN RegisterPitches(player_reg(reg, lahman_id, season))
    ELSE IF season >= Statcast_Start
    THEN IF resp.kind = "raise" THEN Escapes
         ELSE IF NoData(resp) THEN Empty
         ELSE IF "game_type" \notin resp.cols THEN Escapes
         ELSE IF RegularSeason(resp.rows) = <<>> THEN Empty
         ELSE IF "game_pk" \notin resp.cols THEN Escapes
         ELSE Tracked(MeanPerGame(RegularSeason(resp.rows)))
    ELSE Undefined

\* calculate_avg_spin_rate without its cutoff guard
SpinNoCutoff(resp, reg, player_id, lahman_id, season) ==
    IF resp.kind = "raise" THEN Caught
    ELSE IF NoData(resp) THEN Empty
    ELSE IF "release_spin_rate" \notin resp.cols THEN Empty
    ELSE IF DropNA(SpinOf(resp.rows)) = <<>> THEN Empty
    ELSE Tracked(Mean(DropNA(SpinOf(resp.rows))))

\* the mean is taken over the rows of every game type
calculate_avg_spin_rate(resp, reg, player_id, lahman_id, season) ==
    IF season < Statcast_Start THEN Undefined
    ELSE IF resp.kind = "raise" THEN Caught
    ELSE IF NoData(resp) THEN Empty
    ELSE IF "release_spin_rate" \notin resp.cols THEN Empty
    ELSE IF DropNA(SpinOf(resp.rows)) = <<>> THEN Empty
    ELSE Tracked(Mean(DropNA(SpinOf(resp.rows))))

\* the part the two velocity calculators share, after the game-type filter
MeanSpeed(resp, filtered) ==
    IF filtered = <<>> THEN Empty
    ELSE IF "release_speed" \notin resp.cols THEN Empty
    ELSE IF DropNA(SpeedOf(filtered)) = <<>> THEN Empty
    ELSE Tracked(Mean(DropNA(SpeedOf(filtered))))

\* calculate_avg_pitch_velocity averaging over the rows of every game type
VelocityAllGames(resp, reg, player_id, lahman_id, season) ==
    IF season < Statcast_Start THEN Undefined
    ELSE IF resp.kind = "raise" THEN Caught
    ELSE IF NoData(resp) THEN Empty
    ELSE IF "game_type" \notin resp.cols THEN Caught
    ELSE MeanSpeed(resp, resp.rows)

calculate_avg_pitch_velocity(resp, reg, player_id, lahman_id, season) ==
    IF season < Statcast_Start THEN Undefined
    ELSE IF resp.kind = "raise" THEN Caught
    ELSE IF NoData(resp) THEN Empty
    ELSE IF "game_type" \notin resp.cols THEN Caught
    ELSE MeanSpeed(resp, RegularSeason(resp.rows))

calculate_avg_velocity_playoff(resp, reg, player_id, lahman_id, season) ==
    IF season < Statcast_Start THEN Undefined
    ELSE IF resp.kind = "raise" THEN Caught
    ELSE IF NoData(resp) THEN Empty
    ELSE IF "game_type" \notin resp.cols THEN Caught
    ELSE MeanSpeed(resp, Playoffs(resp.rows))

\* game_data['inning'].min() of one game
MinInning(rows, pk) ==
    LET inns == {rows[k].inning : k \in {j \in DOMAIN rows : rows[j].game_pk = pk}}
    IN CHOOSE m \in inns : \A x \in inns : m <= x

\* the games of the regular season in which every recorded inning is inning 1
StartedGamesOnlyInning1(regular) ==
    {pk \in GamePks(regular) :
        \A k \in DOMAIN regular : regular[k].game_pk = pk => regular[k].inning = 1}

\* the games of the regular season whose first recorded inning is inning 1
StartedGames(regular) == {pk \in GamePks(regular) : MinInning(regular, pk) = 1}

\* the register rows the three role calculators read, for every season
RoleRows(reg, lahman_id, season) ==
    IF reg.loaded /\ lahman_id # IdNone THEN player_reg(reg, lahman_id, season) ELSE {}

calculate_games_started(resp, reg, player_id, lahman_id, season) ==
    IF RoleRows(reg, lahman_id, season) # {}
    THEN Registered(Num(NonNeg(SumCol(RoleRows(reg, lahman_id, season), "GS"))))
    ELSE IF season >= Statcast_Start
    THEN IF resp.kind = "raise" THEN Caught
         ELSE IF NoData(resp) THEN Empty
         ELSE IF "game_type" \notin resp.cols THEN Caught
         ELSE IF RegularSeason(resp.rows) = <<>> THEN Empty
         ELSE IF "game_pk" \notin resp.cols \/ "inning" \notin resp.cols THEN Empty
         ELSE Tracked(Num(Cardinality(StartedGames(RegularSeason(resp.rows)))))
    ELSE Undefined

calculate_saves(resp, reg, player_id, lahman_id, season) ==
    IF RoleRows(reg, lahman_id, season) # {}
    THEN Registered(Num(NonNeg(SumCol(RoleRows(reg, lahman_id, season), "SV"))))
    ELSE Undefined

\* relief appearances counting the games of every game type as total
ReliefOverAllGames(resp, reg, player_id, lahman_id, season) ==
    IF RoleRows(reg, lahman_id, season) # {}
    THEN Registered(Num(NonNeg(SumCol(RoleRows(reg, lahman_id, season), "G")
                               - SumCol(RoleRows(reg, lahman_id, season), "GS"))))
    ELSE IF season >= Statcast_Start
    THEN IF resp.kind = "raise" THEN Caught
         ELSE IF NoData(resp) THEN Empty
         ELSE IF "game_type" \notin resp.cols THEN Caught
         ELSE IF RegularSeason(resp.rows) = <<>> THEN Empty
         ELSE IF "game_pk" \notin resp.cols \/ "inning" \notin resp.cols THEN Empty
         ELSE Tracked(Num(NonNeg(Cardinality(GamePks(resp.rows))
                                 - Cardinality(StartedGames(RegularSeason(resp.rows))))))
    ELSE Undefined

calculate_relief_appearances(resp, reg, player_id, lahman_id, season) ==
    IF RoleRows(reg, lahman_id, season) # {}
    THEN Registered(Num(NonNeg(SumCol(RoleRows(reg, lahman_id, season), "G")
                               - SumCol(RoleRows(reg, lahman_id, season), "GS"))))
    ELSE IF season >= Statcast_Start
    THEN IF resp.kind = "raise" THEN Caught
         ELSE IF NoData(resp) THEN Empty
         ELSE IF "game_type" \notin resp.cols THEN Caught
         ELSE IF RegularSeason(resp.rows) = <<>> THEN Empty
         ELSE IF "game_pk" \notin resp.cols \/ "inning" \notin resp.cols THEN Empty
         ELSE Tracked(Num(NonNeg(Cardinality(GamePks(RegularSeason(resp.rows)))
                                 - Cardinality(StartedGames(RegularSeason(resp.rows))))))
    ELSE Undefined

pitch_types == <<"FF", "SI", "SL", "CU", "CH", "FC">>

\* pitch_counts[pitch_type]: rows of the regular season carrying the code
PitchCount(regular, pt) == Len(SelectSeq(regular, LAMBDA r : r.pitch_type = pt))

\* round(x, 2) of x = n / d * 100, in hundredths: to nearest, ties to even
Round2(n, d) ==
    LET q == (n * 10000) \div d
        r == (n * 10000) % d
    IN IF 2 * r < d THEN q
       ELSE IF 2 * r > d THEN q + 1
       ELSE IF q % 2 = 0 THEN q ELSE q + 1

\* PitchPct cutting the percentage off after two decimals
PitchPctTruncated(regular, pt) == (PitchCount(regular, pt) * 10000) \div Len(regular)

\* the percentage of one pitch type: 0.0 when no row carries the code
PitchPct(regular, pt) ==
    IF PitchCount(regular, pt) > 0 THEN Round2(PitchCount(regular, pt), Len(regular)) ELSE 0

calculate_pitch_mix(resp, reg, player_id, lahman_id, season) ==
    IF season < Statcast_Start THEN Undefined
    ELSE IF resp.kind = "raise" THEN Caught
    ELSE IF NoData(resp) THEN Empty
    ELSE IF "game_type" \notin resp.cols THEN Caught
    ELSE IF RegularSeason(resp.rows) = <<>> THEN Empty
    ELSE IF "pitch_type" \notin resp.cols THEN Empty
    ELSE Tracked([j \in 1..Len(pitch_types) |->
                      PitchPct(RegularSeason(resp.rows), pitch_types[j])])

Calculators == {"avg_pitches", "avg_pitches_regular", "avg_spin_rate", "avg_velocity",
                "avg_velocity_playoff", "gs", "sv", "relief_app", "pitch_mix"}

\* the calculator behind each metric
Calculate(calc, resp, reg, player_id, lahman_id, season) ==
    CASE calc = "avg_pitches" -> calculate_avg_pitches_playoff(resp, reg, player_id, lahman_id, season)
      [] calc = "avg_pitches_regular" -> calculate_avg_pitches_regular(resp, reg, player_id, lahman_id, season)
      [] calc = "avg_spin_rate" -> calculate_avg_spin_rate(resp, reg, player_id, lahman_id, season)
      [] calc = "avg_velocity" -> calculate_avg_pitch_velocity(resp, reg, player_id, lahman_id, season)
      [] calc = "avg_velocity_playoff" -> calculate_avg_velocity_playoff(resp, reg, player_id, lahman_id, season)
      [] calc = "gs" -> calculate_games_started(resp, reg, player_id, lahman_id, season)
      [] calc = "sv" -> calculate_saves(resp, reg, player_id, lahman_id, season)
      [] calc = "relief_app" -> calculate_relief_appearances(resp, reg, player_id, lahman_id, season)
      [] calc = "pitch_mix" -> calculate_pitch_mix(resp, reg, player_id, lahman_id, season)

-----------------------------------------------------------------------------
(* Calculator specifications: one calculator applied to one bounded input. *)

\* bounds of the calculator inputs
MaxRows == 3
MaxRegRows == 2
MaxMixRows == 6

\* a pitcher's tracking ID and register ID, and another pitcher's register ID
Pid == 1
Lid == 1
OtherLid == 2

\* event rows the frames are made of: two regular-season games (one opened in
\* inning 1, one entered in inning 3), rows without speed or spin, a pitch
\* code outside the six, two postseason rounds and a wild-card game
Templates ==
    << Row(1, "R", 1, "FF", 90, 2200),
       Row(1, "R", 2, "SL", NA, NA),
       Row(2, "R", 3, "KC", 94, 2400),
       Row(3, "D", 1, "FF", 96, 2300),
       Row(4, "W", 5, "CH", NA, 2500),
       Row(5, "F", 2, "SI", 88, NA) >>

\* frames as bags of templates: the index sequences that do not decrease
IndexSeqs(n) ==
    {s \in [1..n -> 1..Len(Templates)] : \A k \in 1..(n - 1) : s[k] <= s[k + 1]}

CalcRows == UNION {{[k \in 1..n |-> Templates[s[k]]] : s \in IndexSeqs(n)} : n \in 0..MaxRows}

CalcCols == {AllCols} \cup {AllCols \ {c} : c \in AllCols}

CalcResponses == {Raises, NoFrame} \cup {Frame(rows, cols) : rows \in CalcRows, cols \in CalcCols}

\* register rows: two stints of one season before the cutoff (one without a
\* game), one season from the cutoff on, a row that records more starts than
\* games, and a row of another pitcher
RegPool ==
    { RegRow(Lid, 2014, 1, 10, 3, 2, 90, 130),
      RegRow(Lid, 2014, 2, 0, 0, 0, 0, 0),
      RegRow(Lid, 2015, 1, 5, 0, 5, 30, 40),
      RegRow(Lid, 2017, 1, 1, 2, 0, 3, 4),
      RegRow(OtherLid, 2015, 1, 7, 7, 0, 100, 150) }

CalcRegs == {NoReg} \cup {Reg(S) : S \in {T \in SUBSET RegPool : Cardinality(T) <= MaxRegRows}}

CalcSeasons == {2014, 2015, First10_Season}

CalcLahmanIds == {IdNone, IdNaN, Lid}

NotCalled == [calc |-> "", out |-> Undefined]

\* the orchestrator's variables while a calculator specification runs
MainIdle ==
    /\ pc = "calc"
    /\ roster = <<>>
    /\ file = <<>>
    /\ filled = <<>>
    /\ table = <<>>
    /\ tableAtStart = <<>>
    /\ new_columns_added = FALSE
    /\ pitching_reg = NoReg
    /\ source = <<>>
    /\ status = <<>>
    /\ results = <<>>
    /\ calls = <<>>
    /\ players_no_data = <<>>
    /\ writes = 0
    /\ stats = NoStats

InitCalc ==
    /\ prog = "calc"
    /\ MainIdle
    /\ cIn \in [resp : CalcResponses, reg : CalcRegs, player_id : {Pid},
                lahman_id : CalcLahmanIds, season : CalcSeasons]
    /\ cOut = NotCalled

\* one call calculate_<calc>(player_id, lahman_id, season)
CallCalculator(calc) ==
    /\ prog = "calc"
    /\ cOut = NotCalled
    /\ cOut' = [calc |-> calc,
                out |-> Calculate(calc, cIn.resp, cIn.reg, cIn.player_id,
                                  cIn.lahman_id, cIn.season)]
    /\ UNCHANGED <<stats, prog, cIn, mainVars>>

\* one call calculate_avg_pitches_playoff_2017(player_id)
CallPlayoff2017 ==
    /\ prog = "calc"
    /\ cOut = NotCalled
    /\ cIn.season = First10_Season
    /\ cOut' = [calc |-> "avg_pitches_2017",
                out |-> calculate_avg_pitches_playoff_2017(cIn.resp, cIn.player_id)]
    /\ UNCHANGED <<stats, prog, cIn, mainVars>>

NextCalc ==
    \/ \E calc \in Calculators : CallCalculator(calc)
    \/ CallPlayoff2017

SpecCalc == InitCalc /\ [][NextCalc]_vars

\* pitch codes of the pitch-mix inputs: the six tracked codes and one other
MixCodes == <<"FF", "SI", "SL", "CU", "CH", "FC", "KC">>

\* how many regular-season rows carry each code
MixCounts ==
    {c \in [1..Len(MixCodes) -> 0..MaxMixRows] :
        c[1] + c[2] + c[3] + c[4] + c[5] + c[6] + c[7] <= MaxMixRows}

RECURSIVE MixRows(_, _)
MixRows(c, j) ==
    IF j = 0 THEN <<>>
    ELSE MixRows(c, j - 1) \o [k \in 1..c[j] |-> Row(j, "R", 1, MixCodes[j], 90, 2200)]

\* the rows of a postseason game, which the pitch mix must leave out
MixPlayoffRows == {<<>>, <<Row(9, "D", 1, "FF", 96, 2300)>>}

InitMix ==
    /\ prog = "mix"
    /\ MainIdle
    /\ \E c \in MixCounts, po \in MixPlayoffRows, y \in {Statcast_Start, Statcast_Start + 1} :
          cIn = [resp |-> Frame(MixRows(c, Len(MixCodes)) \o po, AllCols), reg |-> NoReg,
                 player_id |-> Pid, lahman_id |-> IdNaN, season |-> y]
    /\ cOut = NotCalled

\* one call calculate_pitch_mix(player_id, season)
CallPitchMix ==
    /\ prog = "mix"
    /\ cOut = NotCalled
    /\ cOut' = [calc |-> "pitch_mix",
                out |-> calculate_pitch_mix(cIn.resp, cIn.reg, cIn.player_id,
                                            cIn.lahman_id, cIn.season)]
    /\ UNCHANGED <<stats, prog, cIn, mainVars>>

SpecMix == InitMix /\ [][CallPitchMix]_vars

-----------------------------------------------------------------------------
(* The window expander compute_averages and the orchestrator main. *)

time_periods == <<"t_minus_4", "t_minus_3", "t_minus_2", "t_minus_1",
                  "t_plus_1", "t_plus_2", "t_plus_3", "t_plus_4">>

\* the metrics in the order of compute_averages; each names its calculator
metric_order == <<"avg_pitches", "avg_pitches_regular", "avg_spin_rate", "avg_velocity",
                  "avg_velocity_playoff", "gs", "sv", "relief_app">>

\* SeasonOf counting the periods after the injury from the injury year itself
SeasonFromInjuryYear(injury_year, period) ==
    CASE period = "t_minus_4" -> injury_year - 4
      [] period = "t_minus_3" -> injury_year - 3
      [] period = "t_minus_2" -> injury_year - 2
      [] period = "t_minus_1" -> injury_year - 1
      [] period = "t_plus_1" -> injury_year
      [] period = "t_plus_2" -> injury_year + 1
      [] period = "t_plus_3" -> injury_year + 2
      [] period = "t_plus_4" -> injury_year + 3

\* t_minus_4_season = injury_year - 4, ..., t_plus_4_season = injury_year + 4
SeasonOf(injury_year, period) ==
    CASE period = "t_minus_4" -> injury_year - 4
      [] period = "t_minus_3" -> injury_year - 3
      [] period = "t_minus_2" -> injury_year - 2
      [] period = "t_minus_1" -> injury_year - 1
      [] period = "t_plus_1" -> injury_year + 1
      [] period = "t_plus_2" -> injury_year + 2
      [] period = "t_plus_3" -> injury_year + 3
      [] period = "t_plus_4" -> injury_year + 4

\* pitch_type.lower()
Lower(pitch_type) ==
    CASE pitch_type = "FF" -> "ff"
      [] pitch_type = "SI" -> "si"
      [] pitch_type = "SL" -> "sl"
      [] pitch_type = "CU" -> "cu"
      [] pitch_type = "CH" -> "ch"
      [] pitch_type = "FC" -> "fc"

\* f'{pitch_type.lower()}_pct_{period}'
PitchMixColumn(pitch_type, period) == Lower(pitch_type) \o "_pct_" \o period

\* the playoff pitch columns of T-1 and T+1 are named before / after
MetricColumn(metric, period) ==
    IF metric = "avg_pitches" /\ period = "t_minus_1" THEN "avg_pitches_before"
    ELSE IF metric = "avg_pitches" /\ period = "t_plus_1" THEN "avg_pitches_after"
    ELSE metric \o "_" \o period

Range(s) == {s[k] : k \in DOMAIN s}

pitch_mix_columns == {PitchMixColumn(pt, p) : pt \in Range(pitch_types), p \in Range(time_periods)}

avg_columns ==
    {MetricColumn(m, p) : m \in Range(metric_order), p \in Range(time_periods)}
        \cup pitch_mix_columns

\* the cells of the tuple compute_averages returns, in its order: the eight
\* metrics and then the six pitch types, each over the eight periods
TupleLen == Len(time_periods) * (Len(metric_order) + Len(pitch_types))
MetricCells == Len(time_periods) * Len(metric_order)

TupleCell(k) ==
    IF k <= MetricCells
    THEN [mix |-> FALSE,
          name |-> metric_order[((k - 1) \div Len(time_periods)) + 1],
          period |-> time_periods[((k - 1) % Len(time_periods)) + 1]]
    ELSE [mix |-> TRUE,
          name |-> pitch_types[((k - MetricCells - 1) \div Len(time_periods)) + 1],
          period |-> time_periods[((k - MetricCells - 1) % Len(time_periods)) + 1]]

TupleCells == [k \in 1..TupleLen |-> TupleCell(k)]

\* the column compute_averages looks up for a cell of its tuple
ReuseColumn(cell) ==
    IF cell.mix THEN PitchMixColumn(cell.name, cell.period)
    ELSE MetricColumn(cell.name, cell.period)

\* a merge loop that names every column <metric>_<period>
MergeColumnRegularNames(cell) ==
    IF cell.mix THEN PitchMixColumn(cell.name, cell.period)
    ELSE cell.name \o "_" \o cell.period

\* the column the merge loop assigns a cell of the tuple to
MergeColumn(cell) ==
    IF cell.mix THEN PitchMixColumn(cell.name, cell.period)
    ELSE MetricColumn(cell.name, cell.period)

ReuseCols == [k \in 1..TupleLen |-> ReuseColumn(TupleCells[k])]
MergeCols == [k \in 1..TupleLen |-> MergeColumn(TupleCells[k])]

\* per column, the last cell of the tuple the merge loop assigns to it (0: none)
MergeSource ==
    [c \in avg_columns |->
        LET ks == {k \in 1..TupleLen : MergeCols[k] = c}
        IN IF ks = {} THEN 0 ELSE CHOOSE k \in ks : \A j \in ks : j <= k]

\* get_or_compute always calling compute_func
ReusedNever(row, col_name) == FALSE

\* col_name in cleaned_data.columns and pd.notna(cleaned_data.at[idx, col_name])
Reused(row, col_name) == col_name \in DOMAIN row /\ notna(row[col_name])

\* get_or_compute: the stored value, or what compute_func returned
get_or_compute(row, col_name, computed) ==
    IF Reused(row, col_name) THEN row[col_name] ELSE computed

PitchIndex(pitch_type) == CHOOSE j \in DOMAIN pitch_types : pitch_types[j] = pitch_type

get_pitch_mix_value(row, pitch_mix_dict, pitch_type, period) ==
    IF PitchMixColumn(pitch_type, period) \in DOMAIN row
           /\ notna(row[PitchMixColumn(pitch_type, period)])
    THEN row[PitchMixColumn(pitch_type, period)]
    ELSE IF pitch_mix_dict = None THEN None
    ELSE Rat(pitch_mix_dict[PitchIndex(pitch_type)], 100)

\* the inputs the orchestrator and the fill script can hand to a calculator
PlayerIds == {IdNaN, Pid}
LahmanIds == {IdNaN, Lid}
WindowSeasons == 2009..2023

\* how the tracking source answers about one subject during one run
MainResponses ==
    { Raises, NoFrame,
      Frame(<<Templates[1], Templates[2], Templates[4]>>, AllCols),
      Frame(<<Templates[1], Templates[3]>>, AllCols) }

\* Pitching.csv as main finds it: absent, or holding these rows
MainRegs == {NoReg, Reg(RegPool)}

\* Calculate over these inputs, evaluated once
Outcomes ==
    [resp \in MainResponses |-> [reg \in MainRegs |-> [pid \in PlayerIds |->
     [lid \in LahmanIds |-> [season \in WindowSeasons |-> [calc \in Calculators |->
        Calculate(calc, resp, reg, pid, lid, season)]]]]]]

\* the calculator call behind cell k of row i, the source answering resp
CellCall(i, k, resp) ==
    Outcomes[resp][pitching_reg][roster[i].player_id][roster[i].lahman_id]
            [SeasonOf(roster[i].Injury_Year, TupleCells[k].period)]
            [IF TupleCells[k].mix THEN "pitch_mix" ELSE TupleCells[k].name]

\* the get_or_compute calls of row i that invoke their calculator
Computed(i) == {k \in 1..MetricCells : ~Reused(table[i], ReuseCols[k])}

\* the first get_or_compute call whose calculator raises, 0 if none does
FirstRaise(i, resp) ==
    LET bad == {k \in Computed(i) : CellCall(i, k, resp).raised}
    IN IF bad = {} THEN 0 ELSE CHOOSE k \in bad : \A j \in bad : k <= j

CallRecord(calc, season) == [calc |-> calc, season |-> season]

\* the calculator invocations of compute_averages for row i, given the first
\* call that raises: those of the missing cells up to it, and, if none raises,
\* one calculate_pitch_mix call per period, whatever the row holds
TaskCalls(i, first) ==
    {CallRecord(TupleCells[k].name, SeasonOf(roster[i].Injury_Year, TupleCells[k].period)) :
        k \in {j \in Computed(i) : first = 0 \/ j <= first}}
    \cup (IF first = 0
          THEN {CallRecord("pitch_mix", SeasonOf(roster[i].Injury_Year, p)) :
                   p \in Range(time_periods)}
          ELSE {})

\* compute_averages looking up the stored values of the first row of the table
TaskResultOfFirstRow(i, resp) ==
    [k \in 1..TupleLen |->
        IF TupleCells[k].mix
        THEN get_pitch_mix_value(table[1], CellCall(i, k, resp).value,
                                 TupleCells[k].name, TupleCells[k].period)
        ELSE get_or_compute(table[1], ReuseCols[k], CellCall(i, k, resp).value)]

\* the tuple compute_averages returns for row i
TaskResult(i, resp) ==
    [k \in 1..TupleLen |->
        IF TupleCells[k].mix
        THEN get_pitch_mix_value(table[i], CellCall(i, k, resp).value,
                                 TupleCells[k].name, TupleCells[k].period)
        ELSE get_or_compute(table[i], ReuseCols[k], CellCall(i, k, resp).value)]

\* cleaned_data.at[idx, column] = value, for every cell of the tuple in order
MergedRow(row, result) ==
    [c \in DOMAIN row |-> IF MergeSource[c] = 0 THEN row[c] ELSE result[MergeSource[c]]]

\* all eight playoff pitches-per-game values of the tuple are None
NoPlayoffData(result) == \A k \in 1..Len(time_periods) : result[k] = None

\* main going on to the fan-out whatever the loaded columns
ReturnsNever(added) == FALSE

\* main returns right after loading when no column had to be added
ReturnsEarly(added) == ~added

-----------------------------------------------------------------------------
(* Inputs of the orchestrator and of the fill script: the persisted table. *)

\* number of rows of the persisted table
NumRows == 2

Rows == 1..NumRows

\* the value the file holds in the cells computed by an earlier run
StoredValue == Num(7)

BeforeColumns ==
    {c \in avg_columns : \E k \in 1..TupleLen :
        /\ ReuseCols[k] = c
        /\ TupleCells[k].period \in {"t_minus_4", "t_minus_3", "t_minus_2", "t_minus_1"}}

\* the subjects: IDs resolved or not, injury years on both sides of the
\* cutoff, and the cells an earlier run has filled
Profile(pid, lid, year, stored) ==
    [player_id |-> pid, lahman_id |-> lid, Injury_Year |-> year, stored |-> stored]

Profiles ==
    { Profile(Pid, Lid, 2019, {}),
      Profile(Pid, Lid, 2013, BeforeColumns),
      Profile(IdNaN, Lid, 2013, {}),
      Profile(Pid, IdNaN, 2019, avg_columns),
      Profile(IdNaN, IdNaN, 2019, {}),
      Profile(Pid, Lid, 2016, avg_columns \ pitch_mix_columns) }

\* the columns the file can hold: all, all but the pitch-mix columns (a file
\* written before they existed), all but one, none
FileColumns ==
    { avg_columns, avg_columns \ pitch_mix_columns, avg_columns \ {"fc_pct_t_plus_4"}, {} }

RosterOf(profiles) ==
    [i \in Rows |-> [Name |-> i, player_id |-> profiles[i].player_id,
                     lahman_id |-> profiles[i].lahman_id,
                     Injury_Year |-> profiles[i].Injury_Year]]

FileOf(profiles, cols) ==
    [exists |-> TRUE, cols |-> cols,
     rows |-> [i \in Rows |-> [c \in avg_columns |->
                  IF c \in cols /\ c \in profiles[i].stored THEN StoredValue ELSE None]]]

NotCalledYet == [i \in Rows |-> {}]

\* the state of a program that has not loaded the file yet
NotStarted ==
    /\ pc = "start"
    /\ filled = <<>>
    /\ table = <<>>
    /\ tableAtStart = <<>>
    /\ new_columns_added = FALSE
    /\ pitching_reg = NoReg
    /\ source = [i \in Rows |-> NoFrame]
    /\ status = [i \in Rows |-> "idle"]
    /\ results = [i \in Rows |-> <<>>]
    /\ calls = NotCalledYet
    /\ players_no_data = <<>>
    /\ writes = 0
    /\ cIn = <<>>
    /\ cOut = NotCalled
    /\ stats = NoStats

InitMain ==
    /\ prog = "main"
    /\ \E profiles \in [Rows -> Profiles], cols \in FileColumns :
          /\ roster = RosterOf(profiles)
          /\ file = FileOf(profiles, cols)
    /\ NotStarted

-----------------------------------------------------------------------------
(* main *)

\* main up to the fan-out: read the file, add the missing columns, return if
\* none was missing, else load the register and submit one task per row
MainLoad ==
    /\ prog = "main"
    /\ pc = "start"
    /\ file.exists
    /\ table' = file.rows
    /\ tableAtStart' = file.rows
    /\ new_columns_added' = (avg_columns \ file.cols # {})
    /\ IF ReturnsEarly(avg_columns \ file.cols # {})
       THEN /\ pc' = "done"
            /\ UNCHANGED <<pitching_reg, status>>
       ELSE /\ pc' = "fanout"
            /\ pitching_reg' \in MainRegs
            /\ status' = [i \in Rows |-> "pending"]
    /\ UNCHANGED <<stats, prog, roster, file, filled, source, results, calls,
                   players_no_data, writes, cIn, cOut>>

\* a worker that stores its result in the shared table itself
TaskRunWritesTable(i) ==
    /\ prog \in {"main", "expand"}
    /\ pc \in {"fanout", "crashed"}
    /\ status[i] = "pending"
    /\ \E resp \in MainResponses :
          LET first == FirstRaise(i, resp) IN
          /\ source' = [source EXCEPT ![i] = resp]
          /\ calls' = [calls EXCEPT ![i] = TaskCalls(i, first)]
          /\ IF first = 0
             THEN /\ status' = [status EXCEPT ![i] = "returned"]
                  /\ results' = [results EXCEPT ![i] = TaskResult(i, resp)]
                  /\ table' = [table EXCEPT ![i] = MergedRow(table[i], TaskResult(i, resp))]
             ELSE /\ status' = [status EXCEPT ![i] = "raised"]
                  /\ UNCHANGED <<results, table>>
    /\ UNCHANGED <<stats, prog, pc, roster, file, filled, tableAtStart,
                   new_columns_added, pitching_reg, players_no_data, writes, cIn, cOut>>

\* one worker runs compute_averages for row i; the executor runs every
\* submitted task, also while main waits in its shutdown after an exception
TaskRun(i) ==
    /\ prog \in {"main", "expand"}
    /\ pc \in {"fanout", "crashed"}
    /\ status[i] = "pending"
    /\ \E resp \in MainResponses :
          LET first == FirstRaise(i, resp) IN
          /\ source' = [source EXCEPT ![i] = resp]
          /\ calls' = [calls EXCEPT ![i] = TaskCalls(i, first)]
          /\ IF first = 0
             THEN /\ status' = [status EXCEPT ![i] = "returned"]
                  /\ results' = [results EXCEPT ![i] = TaskResult(i, resp)]
             ELSE /\ status' = [status EXCEPT ![i] = "raised"]
                  /\ UNCHANGED results
    /\ UNCHANGED <<stats, prog, pc, roster, file, filled, table, tableAtStart,
                   new_columns_added, pitching_reg, players_no_data, writes, cIn, cOut>>

\* the merge loop writing a result to the row of its arrival rank instead of
\* the row idx the task was submitted for
MergeByArrival(i) ==
    LET rank == Cardinality({j \in Rows : status[j] = "merged"}) + 1 IN
    /\ prog = "main"
    /\ pc = "fanout"
    /\ status[i] = "returned"
    /\ table' = [table EXCEPT ![rank] = MergedRow(table[rank], results[i])]
    /\ players_no_data' = IF NoPlayoffData(results[i])
                          THEN Append(players_no_data, roster[i].Name)
                          ELSE players_no_data
    /\ status' = [status EXCEPT ![i] = "merged"]
    /\ UNCHANGED <<stats, prog, pc, roster, file, filled, tableAtStart, new_columns_added,
                   pitching_reg, source, results, calls, writes, cIn, cOut>>

\* the merge loop takes a completed future: future.result() returned
Merge(i) ==
    /\ prog = "main"
    /\ pc = "fanout"
    /\ status[i] = "returned"
    /\ table' = [table EXCEPT ![i] = MergedRow(table[i], results[i])]
    /\ players_no_data' = IF NoPlayoffData(results[i])
                          THEN Append(players_no_data, roster[i].Name)
                          ELSE players_no_data
    /\ status' = [status EXCEPT ![i] = "merged"]
    /\ UNCHANGED <<stats, prog, pc, roster, file, filled, tableAtStart, new_columns_added,
                   pitching_reg, source, results, calls, writes, cIn, cOut>>

\* the merge loop takes a completed future: future.result() raises what the
\* task raised, and the exception leaves main
MergeRaises(i) ==
    /\ prog = "main"
    /\ pc = "fanout"
    /\ status[i] = "raised"
    /\ pc' = "crashed"
    /\ UNCHANGED <<stats, prog, roster, file, filled, table, tableAtStart, new_columns_added,
                   pitching_reg, source, status, results, calls, players_no_data,
                   writes, cIn, cOut>>

\* cleaned_data.to_csv(output_path) after the merge loop
Save ==
    /\ prog = "main"
    /\ pc = "fanout"
    /\ \A i \in Rows : status[i] = "merged"
    /\ file' = [exists |-> TRUE, cols |-> avg_columns, rows |-> table]
    /\ writes' = writes + 1
    /\ pc' = "done"
    /\ UNCHANGED <<stats, prog, roster, filled, table, tableAtStart, new_columns_added,
                   pitching_reg, source, status, results, calls, players_no_data,
                   cIn, cOut>>

\* the process has ended: main returned, or the exception left it once the
\* executor had run every task
Ended ==
    \/ pc = "done"
    \/ pc = "crashed" /\ \A i \in Rows : status[i] # "pending"

\* the program is started again on the file as it now is
Rerun ==
    /\ prog = "main"
    /\ Ended
    /\ pc' = "start"
    /\ table' = <<>>
    /\ tableAtStart' = <<>>
    /\ new_columns_added' = FALSE
    /\ pitching_reg' = NoReg
    /\ source' = [i \in Rows |-> NoFrame]
    /\ status' = [i \in Rows |-> "idle"]
    /\ results' = [i \in Rows |-> <<>>]
    /\ calls' = NotCalledYet
    /\ players_no_data' = <<>>
    /\ writes' = 0
    /\ UNCHANGED <<stats, prog, roster, file, filled, cIn, cOut>>

NextMain ==
    \/ MainLoad
    \/ \E i \in Rows : TaskRun(i)
    \/ \E i \in Rows : Merge(i)
    \/ \E i \in Rows : MergeRaises(i)
    \/ Save
    \/ Rerun

-----------------------------------------------------------------------------
(* The window expander on its own: compute_averages applied to the rows of  *)
(* any loaded table, fully populated rows included.                         *)

InitExpand ==
    /\ prog = "expand"
    /\ \E profiles \in [Rows -> Profiles], cols \in FileColumns :
          /\ roster = RosterOf(profiles)
          /\ file = FileOf(profiles, cols)
          /\ table = FileOf(profiles, cols).rows
          /\ tableAtStart = FileOf(profiles, cols).rows
    /\ pc = "fanout"
    /\ filled = <<>>
    /\ new_columns_added = FALSE
    /\ pitching_reg \in MainRegs
    /\ source = [i \in Rows |-> NoFrame]
    /\ status = [i \in Rows |-> "pending"]
    /\ results = [i \in Rows |-> <<>>]
    /\ calls = NotCalledYet
    /\ players_no_data = <<>>
    /\ writes = 0
    /\ cIn = <<>>
    /\ cOut = NotCalled
    /\ stats = NoStats

-----------------------------------------------------------------------------
(* fill_missing_data.py: the helpers *)

\* the answers of the tracking source to the two queries of one
\* get_statcast_data_robust call: the whole year, then March to November
Source(full, narrow) == [full |-> full, narrow |-> narrow]

\* what get_statcast_data_robust returns (NoFrame for None) and the number of
\* queries it issued
Robust(data, queries) == [data |-> data, queries |-> queries]

\* a helper that guards each query on its own and goes on to the narrow
\* window after the whole-year query raised
RobustRetriesAfterRaise(src, player_id, year) ==
    IF player_id = IdNaN \/ year < Statcast_Start THEN Robust(NoFrame, 0)
    ELSE IF src.full.kind # "raise" /\ ~NoData(src.full) THEN Robust(src.full, 1)
    ELSE IF src.narrow.kind = "raise" THEN Robust(NoFrame, 2)
    ELSE IF ~NoData(src.narrow) THEN Robust(src.narrow, 2)
    ELSE Robust(NoFrame, 2)

get_statcast_data_robust(src, player_id, year) ==
    IF player_id = IdNaN \/ year < Statcast_Start THEN Robust(NoFrame, 0)
    ELSE IF src.full.kind = "raise" THEN Robust(NoFrame, 1)
    ELSE IF ~NoData(src.full) THEN Robust(src.full, 1)
    ELSE IF src.narrow.kind = "raise" THEN Robust(NoFrame, 2)
    ELSE IF ~NoData(src.narrow) THEN Robust(src.narrow, 2)
    ELSE Robust(NoFrame, 2)

\* the outcome of one fill helper: whether it set the cell and to what, the
\* queries issued, whether an exception left it
Fill(set, value, queries, raised) ==
    [set |-> set, value |-> value, queries |-> queries, raised |-> raised]

NotFilled(queries) == Fill(FALSE, None, queries, FALSE)
FillRaises(queries) == Fill(FALSE, None, queries, TRUE)

\* fill_spin_rate once the cell is known to be missing
SpinFill(src, player_id, year) ==
    LET got == get_statcast_data_robust(src, player_id, year)
    IN IF got.data.kind = "none" THEN NotFilled(got.queries)
       ELSE IF "game_type" \notin got.data.cols THEN FillRaises(got.queries)
       ELSE IF RegularSeason(got.data.rows) = <<>>
                 \/ "release_spin_rate" \notin got.data.cols
       THEN NotFilled(got.queries)
       ELSE IF DropNA(SpinOf(RegularSeason(got.data.rows))) = <<>>
       THEN NotFilled(got.queries)
       ELSE Fill(TRUE, Mean(DropNA(SpinOf(RegularSeason(got.data.rows)))),
                 got.queries, FALSE)

FillPlayoffTypes == {"D", "F", "L", "W"}

\* data[data['game_type'].isin(['D', 'F', 'L', 'W'])]
FillPlayoffs(rows) == SelectSeq(rows, LAMBDA r : r.game_type \in FillPlayoffTypes)

\* fill_velocity once the cell is known to be missing
VelocityFill(src, player_id, year, playoff) ==
    LET got == get_statcast_data_robust(src, player_id, year)
        filtered == IF playoff THEN FillPlayoffs(got.data.rows)
                    ELSE RegularSeason(got.data.rows)
    IN IF got.data.kind = "none" THEN NotFilled(got.queries)
       ELSE IF "game_type" \notin got.data.cols THEN FillRaises(got.queries)
       ELSE IF filtered = <<>> \/ "release_speed" \notin got.data.cols
       THEN NotFilled(got.queries)
       ELSE IF DropNA(SpeedOf(filtered)) = <<>> THEN NotFilled(got.queries)
       ELSE Fill(TRUE, Mean(DropNA(SpeedOf(filtered))), got.queries, FALSE)

\* fill_pitch_mix once the cell is known to be missing
PitchMixFill(src, player_id, year, pitch_type) ==
    LET got == get_statcast_data_robust(src, player_id, year)
    IN IF got.data.kind = "none" THEN NotFilled(got.queries)
       ELSE IF "game_type" \notin got.data.cols THEN FillRaises(got.queries)
       ELSE IF RegularSeason(got.data.rows) = <<>> \/ "pitch_type" \notin got.data.cols
       THEN NotFilled(got.queries)
       ELSE Fill(TRUE, Rat(PitchPct(RegularSeason(got.data.rows), pitch_type), 100),
                 got.queries, FALSE)

\* fill_lahman_stats once the cell is known to be missing and the register
\* ID set: the ID is a register key such as "kershcl01", int(lahman_id)
\* raises inside the try, and the helper returns False
LahmanFill(lahman_id, year, stat_type) == NotFilled(0)

\* how the tracking source answers the fill script about one subject
FillSources ==
    { Source(Raises, Frame(<<Templates[1]>>, AllCols)),
      Source(NoFrame, Frame(<<Templates[1], Templates[2], Templates[4]>>, AllCols)),
      Source(Frame(<<Templates[1], Templates[6]>>, AllCols), NoFrame),
      Source(Frame(<<>>, AllCols), Raises),
      Source(Frame(<<Templates[1]>>, AllCols \ {"game_type"}), NoFrame) }

FillMetrics == <<"avg_spin_rate", "avg_velocity", "avg_velocity_playoff">>
LahmanMetrics == <<"gs", "sv", "relief_app">>

\* the helpers over the tracking inputs, evaluated once
FillOutcomes ==
    [src \in FillSources |-> [player_id \in PlayerIds |-> [year \in WindowSeasons |->
     [name \in Range(FillMetrics) \cup Range(pitch_types) |->
        CASE name = "avg_spin_rate" -> SpinFill(src, player_id, year)
          [] name = "avg_velocity" -> VelocityFill(src, player_id, year, FALSE)
          [] name = "avg_velocity_playoff" -> VelocityFill(src, player_id, year, TRUE)
          [] OTHER -> PitchMixFill(src, player_id, year, name)]]]]

fill_spin_rate(row, src, player_id, year, col_name) ==
    IF notna(row[col_name]) THEN NotFilled(0)
    ELSE FillOutcomes[src][player_id][year]["avg_spin_rate"]

fill_velocity(row, src, player_id, year, col_name, playoff) ==
    IF notna(row[col_name]) THEN NotFilled(0)
    ELSE FillOutcomes[src][player_id][year]
             [IF playoff THEN "avg_velocity_playoff" ELSE "avg_velocity"]

\* df_filled.at[idx, col_name] raises KeyError when the frame lacks the column
fill_pitch_mix(row, src, player_id, year, pitch_type, period) ==
    IF PitchMixColumn(pitch_type, period) \notin DOMAIN row THEN FillRaises(0)
    ELSE IF notna(row[PitchMixColumn(pitch_type, period)]) THEN NotFilled(0)
    ELSE FillOutcomes[src][player_id][year][pitch_type]

fill_lahman_stats(row, lahman_id, year, stat_type, col_name) ==
    IF notna(row[col_name]) \/ lahman_id = IdNaN THEN NotFilled(0)
    ELSE LahmanFill(lahman_id, year, stat_type)

-----------------------------------------------------------------------------
(* fill_missing_data.py: the loop over the rows *)

\* the helper calls of one period, in the order of the loop body
PeriodSteps ==
    [k \in 1..Len(FillMetrics) |-> [helper |-> IF k = 1 THEN "fill_spin_rate"
                                                ELSE "fill_velocity",
                                    name |-> FillMetrics[k]]]
    \o [k \in 1..Len(pitch_types) |-> [helper |-> "fill_pitch_mix", name |-> pitch_types[k]]]
    \o [k \in 1..Len(LahmanMetrics) |-> [helper |-> "fill_lahman_stats",
                                         name |-> LahmanMetrics[k]]]

NumFillSteps == Len(time_periods) * Len(PeriodSteps)

\* the helper calls of one row, period after period
FillSteps ==
    [k \in 1..NumFillSteps |->
        LET step == PeriodSteps[((k - 1) % Len(PeriodSteps)) + 1]
            period == time_periods[((k - 1) \div Len(PeriodSteps)) + 1]
        IN [helper |-> step.helper, name |-> step.name, period |-> period,
            col |-> IF step.helper = "fill_pitch_mix"
                    THEN PitchMixColumn(step.name, period)
                    ELSE step.name \o "_" \o period]]

\* per column, the step that can set it (0: none)
FillStepOf ==
    [c \in avg_columns |->
        IF \E k \in 1..NumFillSteps : FillSteps[k].col = c
        THEN CHOOSE k \in 1..NumFillSteps : FillSteps[k].col = c
        ELSE 0]

\* the steps the loop reaches for row i: the year is not before 2015, and the
\* column exists (a test the pitch-mix step does not make)
Attempted(i) ==
    {k \in 1..NumFillSteps :
        /\ SeasonOf(roster[i].Injury_Year, FillSteps[k].period) >= Statcast_Start
        /\ FillSteps[k].helper = "fill_pitch_mix" \/ FillSteps[k].col \in DOMAIN table[i]}

\* the outcome of step k for row i, the source answering src
FillStep(i, k, src) ==
    LET step == FillSteps[k]
        year == SeasonOf(roster[i].Injury_Year, step.period)
    IN CASE step.helper = "fill_spin_rate" ->
                fill_spin_rate(table[i], src, roster[i].player_id, year, step.col)
         [] step.helper = "fill_velocity" ->
                fill_velocity(table[i], src, roster[i].player_id, year, step.col,
                              step.name = "avg_velocity_playoff")
         [] step.helper = "fill_pitch_mix" ->
                fill_pitch_mix(table[i], src, roster[i].player_id, year, step.name,
                               step.period)
         [] step.helper = "fill_lahman_stats" ->
                fill_lahman_stats(table[i], roster[i].lahman_id, year, step.name, step.col)

\* the first step of row i that raises, 0 if none does
FirstFillRaise(i, src) ==
    LET bad == {k \in Attempted(i) : FillStep(i, k, src).raised}
    IN IF bad = {} THEN 0 ELSE CHOOSE k \in bad : \A j \in bad : k <= j

\* the helper invocations of row i, up to the first that raises
FillCalls(i, first) ==
    {CallRecord(FillSteps[k].helper, SeasonOf(roster[i].Injury_Year, FillSteps[k].period)) :
        k \in {j \in Attempted(i) : first = 0 \/ j <= first}}

\* row i of df_filled after the steps before the first that raises
FilledRow(i, src, first) ==
    [c \in DOMAIN table[i] |->
        LET k == FillStepOf[c]
        IN IF k \in Attempted(i) /\ (first = 0 \/ k < first) /\ FillStep(i, k, src).set
           THEN FillStep(i, k, src).value
           ELSE table[i][c]]

\* the steps of row i whose helper returned True, before the first that raises
TrueSteps(i, src, first) ==
    {k \in Attempted(i) : (first = 0 \/ k < first) /\ FillStep(i, k, src).set}

\* df[col].isna().sum() over the columns other than the five descriptive ones:
\* the two ID columns and the metric columns of the file
MissingIn(tbl) ==
    Cardinality({i \in Rows : roster[i].player_id = IdNaN})
    + Cardinality({i \in Rows : roster[i].lahman_id = IdNaN})
    + Cardinality({ic \in Rows \X file.cols : ~notna(tbl[ic[1]][ic[2]])})

\* the columns with a missing value when the script starts
ColumnsWithMissing ==
    {c \in file.cols : \E i \in Rows : ~notna(file.rows[i][c])}
    \cup (IF \E i \in Rows : roster[i].player_id = IdNaN THEN {"player_id"} ELSE {})
    \cup (IF \E i \in Rows : roster[i].lahman_id = IdNaN THEN {"lahman_id"} ELSE {})

\* stats['fields_filled'][col] = stats['fields_filled'].get(col, 0) + 1 for
\* every column of cols
Counted(fields_filled, cols) ==
    [c \in DOMAIN fields_filled \cup cols |->
        (IF c \in DOMAIN fields_filled THEN fields_filled[c] ELSE 0)
        + (IF c \in cols THEN 1 ELSE 0)]

\* the bookkeeping of one iteration: a counter per True return and, if the
\* iteration reaches its end with a True return, the player's name
StatsAfterRow(i, src, first) ==
    [stats EXCEPT
        !.fields_filled = Counted(@, {FillSteps[k].col : k \in TrueSteps(i, src, first)}),
        !.players_updated = IF first = 0 /\ TrueSteps(i, src, first) # {}
                            THEN @ \cup {roster[i].Name} ELSE @]

InitFill ==
    /\ prog = "fill"
    /\ \E profiles \in [Rows -> Profiles], cols \in FileColumns :
          /\ roster = RosterOf(profiles)
          /\ file = FileOf(profiles, cols)
    /\ NotStarted

\* df = pd.read_csv(...); df_filled = df.copy()
FillLoad ==
    /\ prog = "fill"
    /\ pc = "start"
    /\ table' = [i \in Rows |-> [c \in file.cols |-> file.rows[i][c]]]
    /\ tableAtStart' = [i \in Rows |-> [c \in file.cols |-> file.rows[i][c]]]
    /\ status' = [i \in Rows |-> "pending"]
    /\ pc' = "loop"
    /\ stats' = [total_missing_before |-> MissingIn(file.rows),
                 total_missing_after |-> 0,
                 fields_filled |-> [c \in ColumnsWithMissing |-> 0],
                 players_updated |-> {}]
    /\ UNCHANGED <<prog, roster, file, filled, new_columns_added, pitching_reg, source,
                   results, calls, players_no_data, writes, cIn, cOut>>

\* iterrows reaches the rows in order
NextRow(i) ==
    /\ prog = "fill"
    /\ pc = "loop"
    /\ status[i] = "pending"
    /\ \A j \in Rows : j < i => status[j] # "pending"

\* if pd.isna(player_id): continue
FillSkip(i) ==
    /\ NextRow(i)
    /\ roster[i].player_id = IdNaN
    /\ status' = [status EXCEPT ![i] = "skipped"]
    /\ UNCHANGED <<stats, prog, pc, roster, file, filled, table, tableAtStart, new_columns_added,
                   pitching_reg, source, results, calls, players_no_data, writes,
                   cIn, cOut>>

\* one iteration of the loop over the rows: the eight periods of row i
FillRow(i) ==
    /\ NextRow(i)
    /\ roster[i].player_id # IdNaN
    /\ \E src \in FillSources :
          LET first == FirstFillRaise(i, src) IN
          /\ first = 0
          /\ source' = [source EXCEPT ![i] = src]
          /\ calls' = [calls EXCEPT ![i] = FillCalls(i, first)]
          /\ table' = [table EXCEPT ![i] = FilledRow(i, src, first)]
          /\ status' = [status EXCEPT ![i] = "filled"]
          /\ stats' = StatsAfterRow(i, src, first)
    /\ UNCHANGED <<prog, pc, roster, file, filled, tableAtStart, new_columns_added,
                   pitching_reg, results, players_no_data, writes, cIn, cOut>>

\* an iteration in which a helper raises: the exception ends the script
FillRowRaises(i) ==
    /\ NextRow(i)
    /\ roster[i].player_id # IdNaN
    /\ \E src \in FillSources :
          LET first == FirstFillRaise(i, src) IN
          /\ first # 0
          /\ source' = [source EXCEPT ![i] = src]
          /\ calls' = [calls EXCEPT ![i] = FillCalls(i, first)]
          /\ table' = [table EXCEPT ![i] = FilledRow(i, src, first)]
          /\ status' = [status EXCEPT ![i] = "raised"]
          /\ stats' = StatsAfterRow(i, src, first)
    /\ pc' = "crashed"
    /\ UNCHANGED <<prog, roster, file, filled, tableAtStart, new_columns_added,
                   pitching_reg, results, players_no_data, writes, cIn, cOut>>

\* df_filled.to_csv('processed_baseball_injuries_filled.csv') after the loop
FillSave ==
    /\ prog = "fill"
    /\ pc = "loop"
    /\ \A i \in Rows : status[i] # "pending"
    /\ filled' = [cols |-> file.cols, rows |-> table]
    /\ writes' = writes + 1
    /\ stats' = [stats EXCEPT !.total_missing_after = MissingIn(table)]
    /\ pc' = "done"
    /\ UNCHANGED <<prog, roster, file, table, tableAtStart, new_columns_added,
                   pitching_reg, source, status, results, calls, players_no_data,
                   cIn, cOut>>

NextFill ==
    \/ FillLoad
    \/ \E i \in Rows : FillSkip(i)
    \/ \E i \in Rows : FillRow(i)
    \/ \E i \in Rows : FillRowRaises(i)
    \/ FillSave

-----------------------------------------------------------------------------
(* The two programs that read and write the persisted table. *)

Init == InitMain \/ InitFill

Next == NextMain \/ NextFill

Spec == Init /\ [][Next]_vars

NextExpand == \E i \in Rows : TaskRun(i)

SpecExpand == InitExpand /\ [][NextExpand]_vars

-----------------------------------------------------------------------------
(* Claims about the orchestrator, the window expander and the fill script   *)
(* (Spec, SpecExpand)                                                       *)

Loaded == pc \in {"fanout", "loop", "done", "crashed"}

\* the cells of row i that held a value when the current run loaded the table
StoredCells(i) == {c \in DOMAIN tableAtStart[i] : notna(tableAtStart[i][c])}

\* the cells of row i that were missing when the current run loaded the table
MissingCells(i) == {c \in DOMAIN tableAtStart[i] : ~notna(tableAtStart[i][c])}

\* the calculator call compute_averages makes for a column of row i
CallFor(i, c) ==
    LET k == CHOOSE k \in 1..TupleLen : ReuseCols[k] = c
    IN CallRecord(IF TupleCells[k].mix THEN "pitch_mix" ELSE TupleCells[k].name,
                  SeasonOf(roster[i].Injury_Year, TupleCells[k].period))

\* C1: a cell that holds a value when a run of main or of the fill script
\* loads the table holds the same value in the frame for the rest of the run,
\* and in the file the run writes, whatever the calculators return and
\* whatever the order of the merges.
C1_MonotonicFill ==
    Loaded =>
        \A i \in Rows : \A c \in StoredCells(i) :
            /\ table[i][c] = tableAtStart[i][c]
            /\ (prog = "main" /\ writes > 0) => file.rows[i][c] = tableAtStart[i][c]
            /\ (prog = "fill" /\ writes > 0) => filled.rows[i][c] = tableAtStart[i][c]

\* a row with stored pitch-mix cells for which calculate_pitch_mix was called
\* and answered with data has been merged and written, next to cells it filled
C1_Witness ==
    /\ prog = "main"
    /\ pc = "done"
    /\ writes > 0
    /\ \E i \in Rows :
          /\ source[i].kind = "data"
          /\ "ff_pct_t_plus_1" \in StoredCells(i)
          /\ CallFor(i, "ff_pct_t_plus_1") \in calls[i]
          /\ \E c \in MissingCells(i) : notna(file.rows[i][c])

C3_MissingCellsReattempted ==
    (prog = "main" /\ pc = "done") =>
        \A i \in Rows : \A c \in MissingCells(i) : CallFor(i, c) \in calls[i]

\* C4: when main had no column to add it ends at once: no calculator is
\* invoked, no cell of the frame changes, nothing is written and the file
\* stays as it was.
C4_NoOpWithoutNewColumn ==
    (prog = "main" /\ Loaded /\ ~new_columns_added) =>
        /\ pc = "done"
        /\ calls = NotCalledYet
        /\ table = tableAtStart
        /\ writes = 0
        /\ file.rows = tableAtStart

\* main has returned early on a table that still has missing cells
C4_Witness ==
    /\ prog = "main"
    /\ pc = "done"
    /\ ~new_columns_added
    /\ \E i \in Rows : MissingCells(i) # {}

\* C5 as stated: a run of main that reaches the fan-out never ends with an
\* exception before the write.
C5_NeverEndsWithException == prog = "main" => pc # "crashed"

\* the seasons of the calculator (helper) calls made for row i
SeasonsPassed(i) == {call.season : call \in calls[i]}

\* injury_year - 4 .. injury_year + 4 without injury_year
Window(i) ==
    {roster[i].Injury_Year + d : d \in {-4, -3, -2, -1, 1, 2, 3, 4}}

\* the row has been through compute_averages, which returned
Expanded(i) == prog \in {"main", "expand"} /\ status[i] \in {"returned", "merged"}

\* the row has been through the period loop of the fill script
Looped(i) == prog = "fill" /\ status[i] \in {"filled", "skipped"}

\* C7 as stated: the seasons passed to the calculators for a row, by
\* compute_averages and by the period loop of the fill script alike, are
\* exactly the eight seasons around the injury year.
C7_ExactlyTheWindow ==
    \A i \in Rows : (Expanded(i) \/ Looped(i)) => SeasonsPassed(i) = Window(i)

\* C7, amended: the seasons passed for a row are always seasons of the window,
\* never the injury year; compute_averages, when it returns, has passed all
\* eight; the period loop passes those of the window from 2015 on, and none
\* for a row without tracking ID.
C7_WithinTheWindow ==
    \A i \in Rows :
        /\ SeasonsPassed(i) \subseteq Window(i)
        /\ roster[i].Injury_Year \notin SeasonsPassed(i)
        /\ Expanded(i) => SeasonsPassed(i) = Window(i)
        /\ Looped(i) =>
              SeasonsPassed(i) =
                  IF roster[i].player_id = IdNaN THEN {}
                  ELSE {y \in Window(i) : y >= Statcast_Start}

\* the period loop has gone through a row whose window straddles 2015, and
\* compute_averages has returned for a row
C7_Witness ==
    \/ /\ prog = "fill"
       /\ \E i \in Rows : /\ status[i] = "filled"
                          /\ SeasonsPassed(i) # {}
                          /\ SeasonsPassed(i) # Window(i)
    \/ /\ prog = "main"
       /\ \E i \in Rows : /\ status[i] = "merged"
                          /\ SeasonsPassed(i) = Window(i)
                          /\ source[i].kind = "data"

-----------------------------------------------------------------------------
(* Claims about the calculators (SpecCalc, SpecMix) *)

Called == cOut # NotCalled

TrackingOnly == {"avg_pitches", "avg_spin_rate", "avg_velocity", "avg_velocity_playoff",
                 "pitch_mix"}

RegisterMetrics == {"avg_pitches_regular", "gs", "sv", "relief_app"}

\* the register rows of the call's (register_id, season), if the register is
\* loaded and the ID is set
ClaimRegRows ==
    IF cIn.reg.loaded /\ cIn.lahman_id \notin {IdNone, IdNaN}
    THEN {r \in cIn.reg.rows : r.playerID = cIn.lahman_id /\ r.yearID = cIn.season}
    ELSE {}

\* what the register rows give for a metric with a register equivalent
RegisterValue(calc, rows) ==
    CASE calc = "gs" -> Num(NonNeg(SumCol(rows, "GS")))
      [] calc = "sv" -> Num(NonNeg(SumCol(rows, "SV")))
      [] calc = "relief_app" -> Num(NonNeg(SumCol(rows, "G") - SumCol(rows, "GS")))
      [] calc = "avg_pitches_regular" ->
            IF SumCol(rows, "G") > 0
            THEN Rat(SumCol(rows, "IPouts") + SumCol(rows, "BFP"), SumCol(rows, "G"))
            ELSE None

\* C6: every calculator returns undefined and does not raise when the tracking
\* query it issued raises, whatever the season.
C6_CalculatorsNeverRaise ==
    (Called /\ cOut.out.queries > 0 /\ cIn.resp.kind = "raise")
        => (~cOut.out.raised /\ cOut.out.value = None)

\* C8 as stated: for a season >= 2015 no metric takes its value from the register.
C8_NoRegisterFromCutoff ==
    (Called /\ cIn.season >= Statcast_Start) => ~cOut.out.register

\* C8 as amended: for a season >= 2015 the pitches-per-game, spin, velocity and
\* pitch-mix calculators query the tracking source and never read the register;
\* games started and relief appearances take the register row when one exists
\* and query the tracking source only when none does; saves never queries the
\* tracking source and is defined only from a register row.
C8_RoutingFromCutoff ==
    (Called /\ cIn.season >= Statcast_Start) =>
        /\ cOut.calc \in (TrackingOnly \cup {"avg_pitches_regular"})
              => (~cOut.out.register /\ cOut.out.queries = 1)
        /\ cOut.calc \in {"gs", "relief_app"}
              => /\ cOut.out.register <=> ClaimRegRows # {}
                 /\ cOut.out.queries = (IF ClaimRegRows # {} THEN 0 ELSE 1)
                 /\ ClaimRegRows # {}
                       => cOut.out.value = RegisterValue(cOut.calc, ClaimRegRows)
        /\ cOut.calc = "sv"
              => /\ cOut.out.queries = 0
                 /\ cOut.out.register <=> ClaimRegRows # {}
                 /\ ClaimRegRows = {} => cOut.out.value = None

\* a season >= 2015 whose games started come from the register although the
\* tracking source holds regular-season rows
C8_Witness ==
    /\ cOut.calc = "gs"
    /\ cIn.season >= Statcast_Start
    /\ cOut.out.register
    /\ cOut.out.value = Num(0)
    /\ RegularSeason(cIn.resp.rows) # <<>>

\* C9: for a season < 2015 no calculator queries the tracking source or raises;
\* the tracking-only metrics are undefined; a metric with a register equivalent
\* is computed from the register rows of (register_id, season) and is undefined
\* when there is none (the pitches-per-game estimate also when the rows count
\* no game).
C9_RoutingBeforeCutoff ==
    (Called /\ cIn.season < Statcast_Start) =>
        /\ cOut.out.queries = 0
        /\ ~cOut.out.raised
        /\ cOut.calc \in TrackingOnly => cOut.out.value = None
        /\ cOut.calc \in RegisterMetrics
              => /\ ClaimRegRows = {} => cOut.out.value = None
                 /\ ClaimRegRows # {}
                       => cOut.out.value = RegisterValue(cOut.calc, ClaimRegRows)
                 /\ cOut.out.value # None => cOut.out.register

\* a season < 2015 with a register estimate, although the tracking source
\* would have answered with rows
C9_Witness ==
    /\ cOut.calc = "avg_pitches_regular"
    /\ cIn.season < Statcast_Start
    /\ cOut.out.register
    /\ cOut.out.value = Num(22)
    /\ cIn.resp.kind = "data"
    /\ RegularSeason(cIn.resp.rows) # <<>>

\* the regular-season rows of the pitch-mix call, the counts and the result
MixRegular == RegularSeason(cIn.resp.rows)
MixTypes == 1..Len(pitch_types)
MixSum == SumSeq(cOut.out.value)
MixExhaustive == \A k \in DOMAIN MixRegular : \E j \in MixTypes : MixRegular[k].pitch_type = pitch_types[j]

\* each of the six percentages is defined, is 0.0 for a code without rows and
\* is count / total * 100 to the nearest hundredth
MixEachRounded ==
    /\ Len(cOut.out.value) = Len(pitch_types)
    /\ \A j \in MixTypes :
          LET n == PitchCount(MixRegular, pitch_types[j])
              h == cOut.out.value[j]
              e == h * Len(MixRegular) - n * 10000
          IN /\ n = 0 => h = 0
             /\ 2 * e <= Len(MixRegular)
             /\ -2 * e <= Len(MixRegular)

\* C10 as stated: with at least one regular-season row all six percentages
\* are defined and rounded, sum to at most 100, and to exactly 100 when every
\* row carries one of the six codes.
C10_MixSumsToAtMost100 ==
    (Called /\ cIn.season >= Statcast_Start /\ MixRegular # <<>>) =>
        /\ MixEachRounded
        /\ MixSum <= 10000
        /\ MixExhaustive => MixSum = 10000

\* C10 as amended: with at least one regular-season row all six percentages
\* are defined and rounded, and because each is rounded on its own they sum to
\* at most 100.03, and to between 99.97 and 100.03 when every row carries one
\* of the six codes.
C10_MixSumsWithinRounding ==
    (Called /\ cIn.season >= Statcast_Start /\ MixRegular # <<>>) =>
        /\ MixEachRounded
        /\ MixSum <= 10003
        /\ MixExhaustive => MixSum >= 9997

\* six rows over three codes whose rounded percentages exceed 100, with the
\* other three codes at 0.0
C10_Witness ==
    /\ Called
    /\ MixRegular # <<>>
    /\ MixExhaustive
    /\ cOut.out.value # None
    /\ MixSum = 10001
    /\ \E j \in MixTypes : cOut.out.value[j] = 0

-----------------------------------------------------------------------------
(* The identity resolver get_player_id.  A name is the sequence of its      *)
(* characters (one-character strings; "e'" stands for the accented e).  The *)
(* lookup source answers a query (last, first) with an exception or with a  *)
(* frame of candidates; the same query gets the same answer within a call.  *)

AJ_Puk == <<"A", ".", "J", ".", " ", "P", "u", "k">>
A_J_Puk == <<"A", ".", " ", "J", ".", " ", "P", "u", "k">>
Jose_Alvarez == <<"J", "o", "s", "e", " ", "A", "l", "v", "a", "r", "e", "z">>
Jose_Alvarez_Accented == <<"J", "o", "s", "e'", " ", "A", "l", "v", "a", "r", "e", "z">>
Luis_F_Ortiz == <<"L", "u", "i", "s", " ", "F", ".", " ", "O", "r", "t", "i", "z">>
Max_Fried == <<"M", "a", "x", " ", "F", "r", "i", "e", "d">>
Ichiro == <<"I", "c", "h", "i", "r", "o">>

\* the names get_player_id is called with: in the correction table only, in
\* both tables, in the override table only, in neither, and a single word
ResolveNames == {AJ_Puk, Jose_Alvarez, Luis_F_Ortiz, Max_Fried, Ichiro}

\* the entries of name_corrections for these names
name_corrections ==
    [n \in {AJ_Puk, Jose_Alvarez} |-> IF n = AJ_Puk THEN A_J_Puk ELSE Jose_Alvarez_Accented]

\* the entries of manual_ids for these names
manual_ids ==
    [n \in {Jose_Alvarez, Luis_F_Ortiz} |-> IF n = Jose_Alvarez THEN 501625 ELSE 642528]

\* name.split(): the words between runs of blanks
RECURSIVE Words(_, _)
Words(s, word) ==
    IF s = <<>> THEN (IF word = <<>> THEN <<>> ELSE <<word>>)
    ELSE IF Head(s) = " "
    THEN (IF word = <<>> THEN <<>> ELSE <<word>>) \o Words(Tail(s), <<>>)
    ELSE Words(Tail(s), Append(word, Head(s)))

split(name) == Words(name, <<>>)

\* ' '.join(words)
RECURSIVE join(_)
join(words) ==
    IF words = <<>> THEN <<>>
    ELSE IF Len(words) = 1 THEN words[1]
    ELSE words[1] \o <<" ">> \o join(Tail(words))

\* s.replace(old, new) for a character old
RECURSIVE replace(_, _, _)
replace(s, old, new) ==
    IF s = <<>> THEN <<>>
    ELSE (IF Head(s) = old THEN new ELSE <<Head(s)>>) \o replace(Tail(s), old, new)

\* pb.playerid_lookup(last, first)
Query(last, first) == [last |-> last, first |-> first]

Candidate(mlbam, bbref) == [key_mlbam |-> mlbam, key_bbref |-> bbref]

LookupRaises == [kind |-> "raise", rows |-> <<>>]
Lookup(rows) == [kind |-> "data", rows |-> rows]

LookupResponses ==
    { LookupRaises, Lookup(<<>>), Lookup(<<Candidate(11, 21)>>),
      Lookup(<<Candidate(12, 22), Candidate(11, 21)>>) }

\* the name after the correction table
Corrected(name) == IF name \in DOMAIN name_corrections THEN name_corrections[name] ELSE name

\* first is all but the last word, last is the last word
FirstOf(name_parts) == join(SubSeq(name_parts, 1, Len(name_parts) - 1))
LastOf(name_parts) == name_parts[Len(name_parts)]

\* the three lookups of a name: primary, periods removed, periods spaced
PrimaryQuery(name) == Query(LastOf(split(Corrected(name))), FirstOf(split(Corrected(name))))
StrippedQuery(name) ==
    Query(LastOf(split(Corrected(name))), replace(FirstOf(split(Corrected(name))), ".", <<>>))
SpacedQuery(name) ==
    Query(LastOf(split(Corrected(name))),
          replace(FirstOf(split(Corrected(name))), ".", <<".", " ">>))

QueriesOf(name) ==
    IF Len(split(Corrected(name))) < 2 THEN {}
    ELSE {PrimaryQuery(name), StrippedQuery(name), SpacedQuery(name)}

\* what a run of the resolver's body comes to: the candidate row or override
\* ID it returns (kind "none": it returns None), the lookups issued in order,
\* and whether an exception ended it
Resolved(kind, row, id, lookups, raised) ==
    [kind |-> kind, row |-> row, id |-> id, lookups |-> lookups, raised |-> raised]

NoRow == Candidate(IdNone, IdNone)

\* lookup.empty always true: every lookup is followed by the next one
RetryAlways(lookup) == TRUE

\* lookup.empty
IsEmpty(lookup) == lookup.rows = <<>>

\* the override table keyed by the corrected name
CorrectedKey(original_name, name) == name

\* the key the override table is consulted with
OverrideKey(original_name, name) == original_name

\* the statements inside the try of get_player_id; the return None that ends
\* the branch of an empty primary lookup is reached whenever no override
\* was returned, also after a fallback lookup that found candidates
ResolverBody(name, dir) ==
    LET q1 == PrimaryQuery(name)
        q2 == StrippedQuery(name)
        q3 == SpacedQuery(name)
        key == OverrideKey(name, Corrected(name))
    IN IF Len(split(Corrected(name))) < 2 THEN Resolved("none", NoRow, IdNone, <<>>, FALSE)
       ELSE IF dir[q1].kind = "raise" THEN Resolved("none", NoRow, IdNone, <<q1>>, TRUE)
       ELSE IF ~IsEmpty(dir[q1])
       THEN Resolved("candidate", dir[q1].rows[1], IdNone, <<q1>>, FALSE)
       ELSE IF dir[q2].kind = "raise" THEN Resolved("none", NoRow, IdNone, <<q1, q2>>, TRUE)
       ELSE IF ~IsEmpty(dir[q2]) THEN Resolved("none", NoRow, IdNone, <<q1, q2>>, FALSE)
       ELSE IF dir[q3].kind = "raise"
       THEN Resolved("none", NoRow, IdNone, <<q1, q2, q3>>, TRUE)
       ELSE IF ~IsEmpty(dir[q3]) THEN Resolved("none", NoRow, IdNone, <<q1, q2, q3>>, FALSE)
       ELSE IF key \in DOMAIN manual_ids
       THEN Resolved("override", NoRow, manual_ids[key], <<q1, q2, q3>>, FALSE)
       ELSE Resolved("none", NoRow, IdNone, <<q1, q2, q3>>, FALSE)

\* the resolver without its try/except
BodyUnguarded(name, dir) == ResolverBody(name, dir)

\* try: ... except Exception: return None
TryBody(name, dir) ==
    IF ResolverBody(name, dir).raised
    THEN Resolved("none", NoRow, IdNone, ResolverBody(name, dir).lookups, FALSE)
    ELSE ResolverBody(name, dir)

\* what a call returns to its caller: the value (None when it raised), the
\* lookups it issued, whether an exception left it
Returned(value, lookups, raised) == [value |-> value, lookups |-> lookups, raised |-> raised]

\* injuries_clean.py: (key_mlbam, key_bbref), (override ID, None) or None
get_player_id(name, dir) ==
    LET r == TryBody(name, dir)
    IN Returned(CASE r.raised -> None
                  [] ~r.raised /\ r.kind = "candidate" -> <<r.row.key_mlbam, r.row.key_bbref>>
                  [] ~r.raised /\ r.kind = "override" -> <<r.id, IdNone>>
                  [] OTHER -> None,
                r.lookups, r.raised)

\* lookup_player_ids.py: key_mlbam, the override ID or None
lookup_get_player_id(name, dir) ==
    LET r == TryBody(name, dir)
    IN Returned(CASE r.raised -> None
                  [] ~r.raised /\ r.kind = "candidate" -> <<r.row.key_mlbam>>
                  [] ~r.raised /\ r.kind = "override" -> <<r.id>>
                  [] OTHER -> None,
                r.lookups, r.raised)

NotResolved == [calc |-> "", out |-> Returned(None, <<>>, FALSE)]

InitResolve ==
    /\ prog = "resolve"
    /\ MainIdle
    /\ \E name \in ResolveNames :
          \E dir \in [QueriesOf(name) -> LookupResponses] : cIn = [name |-> name, dir |-> dir]
    /\ cOut = NotResolved

\* one call get_player_id(name) of injuries_clean.py
CallResolver ==
    /\ prog = "resolve"
    /\ cOut = NotResolved
    /\ cOut' = [calc |-> "get_player_id", out |-> get_player_id(cIn.name, cIn.dir)]
    /\ UNCHANGED <<stats, prog, cIn, mainVars>>

\* one call get_player_id(name) of lookup_player_ids.py
CallLookupResolver ==
    /\ prog = "resolve"
    /\ cOut = NotResolved
    /\ cOut' = [calc |-> "lookup_get_player_id",
                out |-> lookup_get_player_id(cIn.name, cIn.dir)]
    /\ UNCHANGED <<stats, prog, cIn, mainVars>>

NextResolve == CallResolver \/ CallLookupResolver

SpecResolve == InitResolve /\ [][NextResolve]_vars

-----------------------------------------------------------------------------
(* Claims about single metrics (SpecCalc) *)

PlayoffCalcs == {"avg_pitches", "avg_pitches_2017"}

\* the call is one of the two playoff pitches-per-game functions, for a season
\* the tracking source covers, and the source answered with a whole frame
PlayoffCall ==
    /\ Called
    /\ cOut.calc \in PlayoffCalcs
    /\ cIn.season >= Statcast_Start
    /\ cIn.resp.kind = "data"
    /\ cIn.resp.cols = AllCols

\* the event rows of the season with a game type of the division series, the
\* league championship series or the world series
ClaimPlayoffRows == SelectSeq(cIn.resp.rows, LAMBDA r : r.game_type \in {"D", "L", "W"})

ClaimPlayoffGames == {ClaimPlayoffRows[k].game_pk : k \in DOMAIN ClaimPlayoffRows}

\* C11: playoff pitches per game is never 0; it is undefined for a season
\* without event row of a playoff game type, and with such rows it is the
\* number of these rows divided by the number of their games, at least 1.
C11_UndefinedNotZero ==
    /\ (Called /\ cOut.calc \in PlayoffCalcs) => cOut.out.value # Num(0)
    /\ PlayoffCall =>
          IF ClaimPlayoffRows = <<>>
          THEN cOut.out.value = None
          ELSE /\ cOut.out.value # None
               /\ cOut.out.value[1] * Cardinality(ClaimPlayoffGames)
                     = cOut.out.value[2] * Len(ClaimPlayoffRows)
               /\ cOut.out.value[1] >= cOut.out.value[2]

\* a season with regular-season rows only: the value is undefined
C11_Witness ==
    /\ PlayoffCall
    /\ cOut.calc = "avg_pitches"
    /\ Len(cIn.resp.rows) > 0
    /\ ClaimPlayoffRows = <<>>
    /\ cOut.out.value = None
    /\ cOut.out.queries = 1

\* the release speeds that are present in the regular-season rows of the call
ClaimRegularSpeeds ==
    LET kept == SelectSeq(cIn.resp.rows,
                          LAMBDA r : r.game_type = "R" /\ r.release_speed # NA)
    IN [k \in DOMAIN kept |-> kept[k].release_speed]

\* C12: for a season >= 2015 the velocity is the arithmetic mean of the
\* release speeds present in the rows of game type R, whatever the other rows
\* hold (undefined when there is none); for a season < 2015 it is undefined.
C12_VelocityIsRegularSeasonMean ==
    (Called /\ cOut.calc = "avg_velocity") =>
        /\ cIn.season < Statcast_Start => (cOut.out.value = None /\ cOut.out.queries = 0)
        /\ (cIn.season >= Statcast_Start /\ cIn.resp.kind = "data" /\ cIn.resp.cols = AllCols) =>
              IF ClaimRegularSpeeds = <<>>
              THEN cOut.out.value = None
              ELSE /\ cOut.out.value # None
                   /\ cOut.out.value[1] * Len(ClaimRegularSpeeds)
                         = cOut.out.value[2] * SumSeq(ClaimRegularSpeeds)

\* regular-season speeds 90 and 94 give 92 although a playoff row holds 96
C12_Witness ==
    /\ Called
    /\ cOut.calc = "avg_velocity"
    /\ cIn.season >= Statcast_Start
    /\ cOut.out.value = Num(92)
    /\ \E k \in DOMAIN cIn.resp.rows :
          cIn.resp.rows[k].game_type # "R" /\ cIn.resp.rows[k].release_speed = 96

-----------------------------------------------------------------------------
(* Claims about the identity resolver (SpecResolve) *)

ResolverCalled == prog = "resolve" /\ cOut # NotResolved

\* the lookup source answers the query with a frame without candidate
AnswersEmpty(q) == cIn.dir[q].kind = "data" /\ cIn.dir[q].rows = <<>>

\* the lookup source answers the query with at least one candidate
AnswersCandidate(q) == cIn.dir[q].kind = "data" /\ cIn.dir[q].rows # <<>>

\* what each resolver returns for a candidate row
IdsOf(calc, row) ==
    IF calc = "get_player_id" THEN <<row.key_mlbam, row.key_bbref>> ELSE <<row.key_mlbam>>

\* the fallback lookup that finds candidates after an empty primary lookup
FallbackHit ==
    IF AnswersCandidate(StrippedQuery(cIn.name)) THEN StrippedQuery(cIn.name)
    ELSE SpacedQuery(cIn.name)

FallbackApplies ==
    /\ QueriesOf(cIn.name) # {}
    /\ AnswersEmpty(PrimaryQuery(cIn.name))
    /\ \/ AnswersCandidate(StrippedQuery(cIn.name))
       \/ AnswersEmpty(StrippedQuery(cIn.name)) /\ AnswersCandidate(SpacedQuery(cIn.name))

\* C13 as stated: when the primary lookup is empty and a fallback lookup finds
\* candidates, the resolver returns the IDs of that lookup's first candidate.
C13_FallbackCandidateReturned ==
    (ResolverCalled /\ FallbackApplies) =>
        cOut.out.value = IdsOf(cOut.calc, cIn.dir[FallbackHit].rows[1])

\* C18: no exception leaves the resolver, and a call in which a lookup raised,
\* the primary or a fallback one, returns None.
C18_LookupExceptionsCaught ==
    ResolverCalled =>
        /\ ~cOut.out.raised
        /\ (\E k \in DOMAIN cOut.out.lookups : cIn.dir[cOut.out.lookups[k]].kind = "raise")
              => cOut.out.value = None

\* a fallback lookup raised after an empty primary lookup
C18_Witness ==
    /\ ResolverCalled
    /\ Len(cOut.out.lookups) >= 2
    /\ AnswersEmpty(cOut.out.lookups[1])
    /\ cIn.dir[cOut.out.lookups[Len(cOut.out.lookups)]].kind = "raise"
    /\ cOut.out.value = None
    /\ ~cOut.out.raised

OverrideIds == {manual_ids[n] : n \in DOMAIN manual_ids}

ReturnsOverride == cOut.out.value # None /\ cOut.out.value[1] \in OverrideIds

AllLookupsEmpty ==
    /\ QueriesOf(cIn.name) # {}
    /\ \A q \in QueriesOf(cIn.name) : AnswersEmpty(q)

\* C19: an override ID is returned only after the primary and both fallback
\* lookups were empty, it is the entry of the name as passed in, a name with
\* an entry gets it whenever the three lookups are empty, and no override is
\* returned when a lookup that was issued found a candidate.
C19_OverrideIsLastResort ==
    ResolverCalled =>
        /\ ReturnsOverride =>
              /\ AllLookupsEmpty
              /\ Len(cOut.out.lookups) = 3
              /\ cIn.name \in DOMAIN manual_ids
              /\ cOut.out.value[1] = manual_ids[cIn.name]
        /\ (AllLookupsEmpty /\ cIn.name \in DOMAIN manual_ids) =>
              (cOut.out.value # None /\ cOut.out.value[1] = manual_ids[cIn.name])
        /\ (\E k \in DOMAIN cOut.out.lookups : AnswersCandidate(cOut.out.lookups[k]))
              => ~ReturnsOverride

\* the override of a name that the correction table rewrites
C19_Witness ==
    /\ ResolverCalled
    /\ Corrected(cIn.name) # cIn.name
    /\ Corrected(cIn.name) \notin DOMAIN manual_ids
    /\ ReturnsOverride
    /\ cOut.out.value[1] = manual_ids[cIn.name]

LookupOrder(name) == <<PrimaryQuery(name), StrippedQuery(name), SpacedQuery(name)>>

\* C20: the lookups of a call are the first one, two or three of primary,
\* period-stripped, spaced-period in that order; the second is issued only
\* after an empty primary lookup, the third only after two empty lookups, and
\* a primary lookup with candidates is the only lookup of its call.
C20_LookupOrdering ==
    ResolverCalled =>
        /\ Len(cOut.out.lookups) <= 3
        /\ \A k \in DOMAIN cOut.out.lookups : cOut.out.lookups[k] = LookupOrder(cIn.name)[k]
        /\ \A k \in DOMAIN cOut.out.lookups :
              \A j \in 1..(k - 1) : AnswersEmpty(cOut.out.lookups[j])
        /\ (QueriesOf(cIn.name) # {} /\ AnswersCandidate(PrimaryQuery(cIn.name)))
              => Len(cOut.out.lookups) = 1

\* three different lookups were issued in one call
C20_Witness ==
    /\ ResolverCalled
    /\ Len(cOut.out.lookups) = 3
    /\ Cardinality(QueriesOf(cIn.name)) = 3
    /\ AnswersCandidate(SpacedQuery(cIn.name))

-----------------------------------------------------------------------------
(* Claims about the merge loop of main (Spec) *)

\* main went past its early return in the current run
ReachedFanOut == prog = "main" /\ Loaded /\ new_columns_added

\* the eight playoff pitches-per-game values of row i in the current run,
\* reused from the loaded table or computed from the source's answer
PlayoffValues(i) ==
    [k \in 1..Len(time_periods) |->
        get_or_compute(tableAtStart[i], ReuseCols[k], CellCall(i, k, source[i]).value)]

AllPlayoffUndefined(i) == \A k \in 1..Len(time_periods) : PlayoffValues(i)[k] = None

\* how often the row's name is in the list
TimesListed(i) ==
    Cardinality({k \in DOMAIN players_no_data : players_no_data[k] = roster[i].Name})

\* C14 as stated: when a run that reached the fan-out has ended, a row is in
\* players_no_data once if its eight playoff pitches-per-game values are all
\* undefined and not at all otherwise.
C14_NoDataListedOnce ==
    (ReachedFanOut /\ Ended) =>
        \A i \in Rows : TimesListed(i) = (IF AllPlayoffUndefined(i) THEN 1 ELSE 0)

\* the value of cell k of row i after the run, from the loaded table and the
\* answer of the source alone
ExpectedCell(i, k) ==
    IF notna(tableAtStart[i][MergeCols[k]]) THEN tableAtStart[i][MergeCols[k]]
    ELSE IF ~TupleCells[k].mix THEN CellCall(i, k, source[i]).value
    ELSE IF CellCall(i, k, source[i]).value = None THEN None
    ELSE Rat(CellCall(i, k, source[i]).value[PitchIndex(TupleCells[k].name)], 100)

ExpectedRow(i) == [c \in avg_columns |-> ExpectedCell(i, MergeSource[c])]

\* C15: whatever the order in which the futures complete and are merged, a
\* merged row is the row the loaded table and the calculator results
\* determine, a row not merged is as loaded, the file a run writes holds
\* exactly the merged rows, and a run that ends without write leaves the file
\* as loaded.
C15_MergeOrderIndependent ==
    (prog = "main" /\ Loaded) =>
        /\ \A i \in Rows :
              table[i] = (IF status[i] = "merged" THEN ExpectedRow(i) ELSE tableAtStart[i])
        /\ (pc = "done" /\ writes > 0) =>
              file.rows = [i \in Rows |-> ExpectedRow(i)]
        /\ ~(pc = "done" /\ writes > 0) => file.rows = tableAtStart

\* a written run in which the second row was merged before the first, both
\* rows with different results
C15_Witness ==
    /\ prog = "main"
    /\ pc = "done"
    /\ writes > 0
    /\ players_no_data = <<roster[2].Name, roster[1].Name>>
    /\ table[1] # tableAtStart[1]
    /\ table[2] # tableAtStart[2]
    /\ table[1] # table[2]

\* a step of the merge loop for row i: its future had returned and is merged
MergeStepOf(i) == pc = "fanout" /\ status[i] = "returned" /\ status'[i] = "merged"

\* a step inside one run: not the load at its start, nor a new start
InsideRun == prog = "main" /\ pc # "start" /\ pc' # "start"

\* C16: inside a run the table changes only in a merge step, and then only in
\* the row of the merged future, so no worker step changes it; the file
\* changes only in a write, a run writes at most once, and it writes only
\* when every row's result has been merged.
C16_SingleWriter ==
    [][InsideRun =>
          /\ table' # table =>
                \E i \in Rows : /\ MergeStepOf(i)
                                /\ \A j \in Rows \ {i} : table'[j] = table[j]
          /\ file' # file => writes' = writes + 1
          /\ writes' # writes =>
                /\ writes = 0
                /\ writes' = 1
                /\ \A i \in Rows : status[i] = "merged"
                /\ file'.rows = table]_vars

\* a run that wrote after its workers had computed new cells for both rows
C16_Witness ==
    /\ prog = "main"
    /\ pc = "done"
    /\ writes = 1
    /\ \A i \in Rows : status[i] = "merged" /\ table[i] # tableAtStart[i]
    /\ file.rows = table

-----------------------------------------------------------------------------
(* Claims about rows with an unset ID (Spec) *)

\* row i has no tracking ID and has a register ID
UnsetTracking(i) == roster[i].player_id = IdNaN /\ roster[i].lahman_id # IdNaN

\* the season of cell k of row i
CellSeason(i, k) == SeasonOf(roster[i].Injury_Year, TupleCells[k].period)

\* the rows the loaded register holds for cell k of row i
CellRegRows(i, k) ==
    IF pitching_reg.loaded
    THEN {r \in pitching_reg.rows :
             r.playerID = roster[i].lahman_id /\ r.yearID = CellSeason(i, k)}
    ELSE {}

\* the cells of row i that were missing at load and that the register answers
RegisterCells(i) ==
    {k \in 1..MetricCells :
        /\ ~Reused(tableAtStart[i], ReuseCols[k])
        /\ CellRegRows(i, k) # {}
        /\ \/ TupleCells[k].name \in {"gs", "sv", "relief_app"}
           \/ TupleCells[k].name = "avg_pitches_regular" /\ CellSeason(i, k) < Statcast_Start}

\* the cells of row i that were missing at load and need the tracking ID
TrackingCells(i) ==
    {k \in 1..TupleLen :
        /\ ~Reused(tableAtStart[i], ReuseCols[k])
        /\ TupleCells[k].mix \/ TupleCells[k].name \in TrackingOnly}

\* the orchestrator has ended with the register cells of row i stored from
\* the register rows
RegisterCellsStored(i) ==
    \A k \in RegisterCells(i) :
        /\ MergeCols[k] \in DOMAIN table[i]
        /\ table[i][MergeCols[k]] = RegisterValue(TupleCells[k].name, CellRegRows(i, k))

TrackingCellsUndefined(i) ==
    \A k \in TrackingCells(i) :
        MergeCols[k] \in DOMAIN table[i] => table[i][MergeCols[k]] = None

\* the register steps the fill loop has for row i
LahmanSteps(i) == {k \in Attempted(i) : FillSteps[k].helper = "fill_lahman_stats"}

\* the fill script has called its register helper for every such step
LahmanStepsCalled(i) ==
    \A k \in LahmanSteps(i) :
        CallRecord("fill_lahman_stats", SeasonOf(roster[i].Injury_Year, FillSteps[k].period))
            \in calls[i]

\* C17 as stated: when either program has ended, a row without tracking ID
\* and with a register ID has its register-sourced cells computed (the
\* orchestrator stores the value of the register rows, the fill script has
\* called its register helper for the cell) and its tracking-only cells are
\* undefined.
C17_UnsetIdSkipsOnlyItsMetrics ==
    \A i \in Rows :
        UnsetTracking(i) =>
            /\ (ReachedFanOut /\ Ended) =>
                  RegisterCellsStored(i) /\ TrackingCellsUndefined(i)
            /\ (prog = "fill" /\ pc \in {"done", "crashed"}) =>
                  LahmanStepsCalled(i) /\ table[i] = tableAtStart[i]

-----------------------------------------------------------------------------
(* Claims about the worker tasks of main (Spec) *)

\* the cells of row i's tuple whose column held a value when the run loaded
ReusedAtStart(i) == {k \in 1..TupleLen : Reused(tableAtStart[i], ReuseCols[k])}

\* C21: in every interleaving of tasks and merges, a row is as loaded until
\* its own task has returned and been merged, every value a task reuses is
\* the value its own row held when the run loaded the table, and every other
\* value of its tuple is what the calculators gave for its own row.
C21_SubjectIsolation ==
    (prog = "main" /\ Loaded) =>
        \A i \in Rows :
            /\ status[i] \in {"pending", "returned", "raised"} => table[i] = tableAtStart[i]
            /\ status[i] \in {"returned", "merged"} =>
                  \A k \in 1..TupleLen :
                      results[i][k] = (IF Reused(tableAtStart[i], ReuseCols[k])
                                       THEN tableAtStart[i][ReuseCols[k]]
                                       ELSE ExpectedCell(i, k))

\* the first row has been merged with new values while the task of the second
\* row, which reuses values the first row lacked, has returned
C21_Witness ==
    /\ prog = "main"
    /\ pc = "fanout"
    /\ status[1] = "merged"
    /\ table[1] # tableAtStart[1]
    /\ status[2] = "returned"
    /\ ReusedAtStart(2) \ ReusedAtStart(1) # {}
    /\ ReusedAtStart(2) # 1..TupleLen

-----------------------------------------------------------------------------
(* The fan-out of main on its own: the executor, its workers and the merge   *)
(* loop, over more rows than the pool has workers. A row's task is a single  *)
(* compute_averages call; whether it returned or raised is read by           *)
(* future.result().                                                          *)

\* ThreadPoolExecutor(max_workers=10)
max_workers == 10

\* rows of the table in the fan-out specification
PoolTasks == 11

PoolRows == 1..PoolTasks

\* the tasks a worker thread is running
Executing == {i \in PoolRows : status[i] = "running"}

InitPool ==
    /\ prog = "pool"
    /\ pc = "submit"
    /\ roster = <<>>
    /\ file = <<>>
    /\ filled = <<>>
    /\ table = <<>>
    /\ tableAtStart = <<>>
    /\ new_columns_added = TRUE
    /\ pitching_reg = NoReg
    /\ source = <<>>
    /\ status = [i \in PoolRows |-> "idle"]
    /\ results = <<>>
    /\ calls = <<>>
    /\ players_no_data = <<>>
    /\ writes = 0
    /\ cIn = <<>>
    /\ cOut = NotCalled
    /\ stats = NoStats

PoolUnchanged ==
    UNCHANGED <<stats, prog, roster, file, filled, table, tableAtStart, new_columns_added,
                pitching_reg, source, results, calls, players_no_data, cIn, cOut>>

\* executor.submit(compute_averages, idx, ...) for the next row of iterrows;
\* after the last row main enters the as_completed loop
PoolSubmit(i) ==
    /\ prog = "pool"
    /\ pc = "submit"
    /\ status[i] = "idle"
    /\ \A j \in PoolRows : j < i => status[j] # "idle"
    /\ status' = [status EXCEPT ![i] = "pending"]
    /\ pc' = IF i = PoolTasks THEN "fanout" ELSE "submit"
    /\ writes' = writes
    /\ PoolUnchanged

\* a worker takes the oldest queued task; the pool has max_workers threads
PoolStart(i) ==
    /\ prog = "pool"
    /\ status[i] = "pending"
    /\ \A j \in PoolRows : j < i => status[j] \notin {"idle", "pending"}
    /\ Cardinality(Executing) < max_workers
    /\ status' = [status EXCEPT ![i] = "running"]
    /\ UNCHANGED <<pc, writes>>
    /\ PoolUnchanged

\* compute_averages ends; the future holds its tuple or its exception
PoolFinish(i) ==
    /\ prog = "pool"
    /\ status[i] = "running"
    /\ status' = [status EXCEPT ![i] = "finished"]
    /\ UNCHANGED <<pc, writes>>
    /\ PoolUnchanged

\* as_completed yields the future of row i and future.result() returns
PoolMerge(i) ==
    /\ prog = "pool"
    /\ pc = "fanout"
    /\ status[i] = "finished"
    /\ status' = [status EXCEPT ![i] = "merged"]
    /\ UNCHANGED <<pc, writes>>
    /\ PoolUnchanged

\* as_completed yields the future of row i and future.result() raises: the
\* loop is left, the with block waits for the remaining tasks
PoolMergeRaises(i) ==
    /\ prog = "pool"
    /\ pc = "fanout"
    /\ status[i] = "finished"
    /\ pc' = "crashed"
    /\ UNCHANGED <<status, writes>>
    /\ PoolUnchanged

\* cleaned_data.to_csv(output_path) after the loop
PoolSave ==
    /\ prog = "pool"
    /\ pc = "fanout"
    /\ \A i \in PoolRows : status[i] = "merged"
    /\ pc' = "done"
    /\ writes' = writes + 1
    /\ UNCHANGED status
    /\ PoolUnchanged

NextPool ==
    \/ \E i \in PoolRows : PoolSubmit(i)
    \/ \E i \in PoolRows : PoolStart(i)
    \/ \E i \in PoolRows : PoolFinish(i)
    \/ \E i \in PoolRows : PoolMerge(i)
    \/ \E i \in PoolRows : PoolMergeRaises(i)
    \/ PoolSave

SpecPool == InitPool /\ [][NextPool]_vars

\* the run has ended: main returned, or the exception left the with block
PoolEnded ==
    \/ pc = "done"
    \/ pc = "crashed" /\ \A i \in PoolRows : status[i] \in {"finished", "merged"}

\* C22 as stated: once the rows are submitted every row has a task, at no
\* time are more than max_workers tasks executing, and when the run has ended
\* every row's result has been merged.
C22_FanOutShape ==
    prog = "pool" =>
        /\ pc # "submit" => \A i \in PoolRows : status[i] # "idle"
        /\ Cardinality(Executing) <= max_workers
        /\ PoolEnded => \A i \in PoolRows : status[i] = "merged"

-----------------------------------------------------------------------------
(* Claims about the role calculators (SpecCalc) *)

\* the rows of the call's answer that belong to the regular season
ClaimRegular == SelectSeq(cIn.resp.rows, LAMBDA r : r.game_type = "R")

ClaimGames == {ClaimRegular[k].game_pk : k \in DOMAIN ClaimRegular}

\* the regular-season games with a row of inning 1; innings count from 1, so
\* these are the games whose minimum recorded inning is 1
ClaimStartedGames ==
    {pk \in ClaimGames :
        \E k \in DOMAIN ClaimRegular :
            ClaimRegular[k].game_pk = pk /\ ClaimRegular[k].inning = 1}

\* the call falls back to the tracking source and the source answers with a
\* frame that names games, game types and innings
TrackingFallback(calc) ==
    /\ Called
    /\ cOut.calc = calc
    /\ cIn.season >= Statcast_Start
    /\ ClaimRegRows = {}
    /\ cIn.resp.kind = "data"
    /\ {"game_pk", "game_type", "inning"} \subseteq cIn.resp.cols

\* C23: for a season >= 2015 without register row, calculate_games_started
\* returns the number of regular-season games whose minimum recorded inning is
\* 1 (0 when there are regular-season rows but no such game) and undefined
\* when the answer holds no regular-season row.
C23_GamesStartedFallback ==
    TrackingFallback("gs") =>
        /\ ~cOut.out.raised
        /\ ~cOut.out.register
        /\ cOut.out.value = (IF ClaimRegular = <<>> THEN None
                             ELSE Num(Cardinality(ClaimStartedGames)))

\* two regular-season games, one opened in inning 1 and continued in inning 2,
\* one entered in inning 3: one game started
C23_Witness ==
    /\ TrackingFallback("gs")
    /\ Cardinality(ClaimGames) = 2
    /\ Len(ClaimRegular) = 3
    /\ cOut.out.value = Num(1)

\* what the two role calculators return for the input of the call
GamesStartedOfCall ==
    calculate_games_started(cIn.resp, cIn.reg, cIn.player_id, cIn.lahman_id, cIn.season)

ReliefOfCall ==
    calculate_relief_appearances(cIn.resp, cIn.reg, cIn.player_id, cIn.lahman_id, cIn.season)

\* C24: for the input of any call of one of the two role calculators, both
\* take the same path (both read the register, or both issue the same number
\* of tracking queries), both are defined or both undefined, and on the
\* tracking path their sum is the number of distinct regular-season games.
C24_StartsPlusReliefIsGames ==
    (Called /\ cOut.calc \in {"gs", "relief_app"}) =>
        /\ cOut.out = (IF cOut.calc = "gs" THEN GamesStartedOfCall ELSE ReliefOfCall)
        /\ GamesStartedOfCall.register = ReliefOfCall.register
        /\ GamesStartedOfCall.queries = ReliefOfCall.queries
        /\ GamesStartedOfCall.raised = ReliefOfCall.raised
        /\ (GamesStartedOfCall.value = None) = (ReliefOfCall.value = None)
        /\ (~GamesStartedOfCall.register /\ GamesStartedOfCall.value # None) =>
              /\ GamesStartedOfCall.value[2] = 1
              /\ ReliefOfCall.value[2] = 1
              /\ GamesStartedOfCall.value[1] + ReliefOfCall.value[1]
                    = Cardinality(ClaimGames)

\* a relief-appearances call on the tracking path: a started game, a game
\* entered in inning 3 and a postseason game give 1 + 1 = 2 games
C24_Witness ==
    /\ TrackingFallback("relief_app")
    /\ Cardinality(ClaimGames) = 2
    /\ Len(ClaimRegular) < Len(cIn.resp.rows)
    /\ GamesStartedOfCall.value = Num(1)
    /\ cOut.out.value = Num(1)

\* a register row exists for the call of calculate_relief_appearances
RegisterRelief == Called /\ cOut.calc = "relief_app" /\ ClaimRegRows # {}

\* C25 as stated: whenever a register row exists, calculate_relief_appearances
\* returns total games minus total games started, summed over the matching
\* rows, for every combination of the two totals.
C25_ReliefIsGamesMinusStarts ==
    RegisterRelief =>
        cOut.out.value = Num(SumCol(ClaimRegRows, "G") - SumCol(ClaimRegRows, "GS"))

\* C25, amended: whenever a register row exists the result comes from the
\* register without tracking query, and it is total games minus total games
\* started when that difference is positive, and 0 otherwise.
C25_ReliefIsClampedDifference ==
    RegisterRelief =>
        /\ cOut.out.register
        /\ cOut.out.queries = 0
        /\ ~cOut.out.raised
        /\ cOut.out.value =
              (IF SumCol(ClaimRegRows, "G") > SumCol(ClaimRegRows, "GS")
               THEN Num(SumCol(ClaimRegRows, "G") - SumCol(ClaimRegRows, "GS"))
               ELSE Num(0))

\* a register row with more starts than games gives 0
C25_Witness ==
    /\ RegisterRelief
    /\ SumCol(ClaimRegRows, "GS") > SumCol(ClaimRegRows, "G")
    /\ cOut.out.value = Num(0)

-----------------------------------------------------------------------------
(* Claims about the playoff-filtered metrics of both programs (Spec) *)

\* the rows of the division series, league championship series and world series
SpecPlayoffRows(rows) == SelectSeq(rows, LAMBDA r : r.game_type \in {"D", "L", "W"})

\* the mean of the speeds present in the playoff rows, None without any
SpecPlayoffVelocity(rows) ==
    LET kept == SelectSeq(SpecPlayoffRows(rows), LAMBDA r : r.release_speed # NA)
    IN IF kept = <<>> THEN None
       ELSE Rat(SumSeq([k \in DOMAIN kept |-> kept[k].release_speed]), Len(kept))

\* the pitches per playoff game, None without playoff row
SpecPlayoffPitches(rows) ==
    IF SpecPlayoffRows(rows) = <<>> THEN None
    ELSE Rat(Len(SpecPlayoffRows(rows)),
             Cardinality({SpecPlayoffRows(rows)[k].game_pk : k \in DOMAIN SpecPlayoffRows(rows)}))

\* the playoff cells of the tuple of row i that the task computed from a frame
PlayoffCellsComputed(i) ==
    {k \in 1..MetricCells :
        /\ TupleCells[k].name \in {"avg_pitches", "avg_velocity_playoff"}
        /\ ~Reused(tableAtStart[i], ReuseCols[k])
        /\ CellSeason(i, k) >= Statcast_Start
        /\ source[i].kind = "data"}

\* the orchestrator's playoff metrics come from the D, L, W rows only
MainPlayoffFromDLW ==
    \A i \in Rows :
        (prog = "main" /\ Loaded /\ status[i] \in {"returned", "merged"}) =>
            \A k \in PlayoffCellsComputed(i) :
                results[i][k] = (IF TupleCells[k].name = "avg_pitches"
                                 THEN SpecPlayoffPitches(source[i].rows)
                                 ELSE SpecPlayoffVelocity(source[i].rows))

\* the playoff-velocity steps of the fill loop for row i whose cell was missing
PlayoffFillSteps(i) ==
    {k \in Attempted(i) :
        /\ FillSteps[k].name = "avg_velocity_playoff"
        /\ ~notna(tableAtStart[i][FillSteps[k].col])}

\* the fill script's playoff velocity comes from the D, L, W rows only
FillPlayoffFromDLW ==
    \A i \in Rows :
        (prog = "fill" /\ Loaded /\ status[i] = "filled") =>
            \A k \in PlayoffFillSteps(i) :
                table[i][FillSteps[k].col] =
                    SpecPlayoffVelocity(
                        get_statcast_data_robust(
                            source[i], roster[i].player_id,
                            SeasonOf(roster[i].Injury_Year, FillSteps[k].period)).data.rows)

\* C26 as stated: playoff pitches per game and playoff velocity of the
\* orchestrator, and playoff velocity of the fill script, are computed from
\* exactly the rows of game type D, L or W.
C26_PlayoffSetIsDLW == MainPlayoffFromDLW /\ FillPlayoffFromDLW

-----------------------------------------------------------------------------
(* get_statcast_data_robust on its own: one call on one bounded input. *)

\* answers of the tracking source to one query of the fill script
RobustAnswers ==
    { Raises, NoFrame, Frame(<<>>, AllCols),
      Frame(<<Templates[1]>>, AllCols),
      Frame(<<Templates[1], Templates[4]>>, AllCols),
      Frame(<<Templates[3]>>, AllCols \ {"game_type"}) }

RobustSources == {Source(full, narrow) : full \in RobustAnswers, narrow \in RobustAnswers}

InitRobust ==
    /\ prog = "robust"
    /\ MainIdle
    /\ cIn \in [src : RobustSources, player_id : PlayerIds, year : {2014, 2015, 2016}]
    /\ cOut = NotCalled

\* one call get_statcast_data_robust(player_id, year)
CallRobust ==
    /\ prog = "robust"
    /\ cOut = NotCalled
    /\ cOut' = [calc |-> "get_statcast_data_robust",
                out |-> get_statcast_data_robust(cIn.src, cIn.player_id, cIn.year)]
    /\ UNCHANGED <<stats, prog, pc, roster, file, filled, table, tableAtStart, new_columns_added,
                   pitching_reg, source, status, results, calls, players_no_data,
                   writes, cIn>>

SpecRobust == InitRobust /\ [][CallRobust]_vars

RobustCalled == prog = "robust" /\ cOut # NotCalled

\* the whole-year query answered, with nothing or with an empty frame
FullGaveNothing == cIn.src.full.kind # "raise" /\ NoData(cIn.src.full)

\* C27: one call issues at most two queries; none when the tracking ID is
\* missing or the year is before 2015; otherwise the whole-year query first,
\* and the March-to-November query only if the first answered with nothing or
\* an empty frame; the call returns the first non-empty frame it got, and
\* undefined when a query raised or both gave nothing.
C27_NarrowWindowFallback ==
    RobustCalled =>
        /\ cOut.out.queries \in 0..2
        /\ (cOut.out.queries = 0) = (cIn.player_id = IdNaN \/ cIn.year < Statcast_Start)
        /\ (cOut.out.queries = 2) = (cOut.out.queries # 0 /\ FullGaveNothing)
        /\ cOut.out.data =
              (IF cOut.out.queries = 0 \/ cIn.src.full.kind = "raise" THEN NoFrame
               ELSE IF ~FullGaveNothing THEN cIn.src.full
               ELSE IF cIn.src.narrow.kind = "raise" \/ NoData(cIn.src.narrow) THEN NoFrame
               ELSE cIn.src.narrow)

\* the whole-year query raised while the narrow window would have had data:
\* one query, undefined
C27_Witness ==
    /\ RobustCalled
    /\ cIn.src.full.kind = "raise"
    /\ cIn.src.narrow.kind = "data"
    /\ Len(cIn.src.narrow.rows) > 0
    /\ cOut.out.queries = 1
    /\ cOut.out.data = NoFrame

-----------------------------------------------------------------------------
(* Claims about the addressing of the cells (Spec) *)

\* the offset a period's name stands for
PeriodOffset ==
    [p \in Range(time_periods) |->
        CASE p = "t_minus_4" -> 0 - 4
          [] p = "t_minus_3" -> 0 - 3
          [] p = "t_minus_2" -> 0 - 2
          [] p = "t_minus_1" -> 0 - 1
          [] p = "t_plus_1" -> 1
          [] p = "t_plus_2" -> 2
          [] p = "t_plus_3" -> 3
          [] p = "t_plus_4" -> 4]

\* the tuple has one cell per (period, metric) and per (period, pitch type)
OneCellPerPair ==
    Cardinality({<<TupleCells[k].mix, TupleCells[k].name, TupleCells[k].period>> :
                    k \in 1..TupleLen})
        = Len(time_periods) * (Len(metric_order) + Len(pitch_types))

\* the column looked up for reuse is the column the merge writes
SameColumnBothWays ==
    \A k \in 1..TupleLen : ReuseCols[k] = MergeCols[k] /\ MergeCols[k] \in avg_columns

\* no two cells share a column
ColumnsDistinct == Cardinality({MergeCols[k] : k \in 1..TupleLen}) = TupleLen

\* the value of a computed cell of row i is the calculator's value for
\* injury_year plus the offset of the cell's period, and the call is recorded
\* with that season
CalledWithOffset(i) ==
    \A k \in 1..MetricCells :
        ~Reused(tableAtStart[i], ReuseCols[k]) =>
            LET season == roster[i].Injury_Year + PeriodOffset[TupleCells[k].period] IN
            /\ CallRecord(TupleCells[k].name, season) \in calls[i]
            /\ results[i][k] =
                  Outcomes[source[i]][pitching_reg][roster[i].player_id]
                          [roster[i].lahman_id][season][TupleCells[k].name].value

\* C28: for each period and metric the column checked for reuse is the column
\* the merge writes, no two (period, metric) pairs share a column, and every
\* calculator call of a returned task was made with injury_year plus the
\* period's offset.
C28_CellAddressing ==
    /\ OneCellPerPair
    /\ SameColumnBothWays
    /\ ColumnsDistinct
    /\ \A i \in Rows :
          (prog = "main" /\ Loaded /\ status[i] \in {"returned", "merged"}) =>
              CalledWithOffset(i)

\* a merged row of injury year 2016 whose stored games started were reused and
\* whose T+1 pitch mix was computed for 2017 and written to its own column
C28_Witness ==
    /\ prog = "main"
    /\ status[2] = "merged"
    /\ roster[2].Injury_Year = 2016
    /\ CallRecord("pitch_mix", 2017) \in calls[2]
    /\ table[2]["gs_t_minus_1"] # None
    /\ table[2]["gs_t_minus_1"] = tableAtStart[2]["gs_t_minus_1"]
    /\ table[2]["fc_pct_t_plus_1"] # None
    /\ tableAtStart[2]["fc_pct_t_plus_1"] = None

-----------------------------------------------------------------------------
(* Claims about the two spin-rate implementations (SpecCalc) *)

\* what fill_spin_rate computes for a missing cell from the event set of the
\* call, the tracking source giving that set to either query
SpinFillOfCall == SpinFill(Source(cIn.resp, cIn.resp), cIn.player_id, cIn.season)

\* a spin-rate call for a season >= 2015 answered with a complete frame
SpinCallOnData ==
    /\ Called
    /\ cOut.calc = "avg_spin_rate"
    /\ cIn.season >= Statcast_Start
    /\ cIn.resp.kind = "data"
    /\ cIn.resp.cols = AllCols

\* C29 as stated: for the same subject, season >= 2015 and event set,
\* calculate_avg_spin_rate and fill_spin_rate give the same value for the
\* avg_spin_rate cell, postseason rows or not.
C29_SpinImplementationsAgree ==
    SpinCallOnData =>
        /\ ~SpinFillOfCall.raised
        /\ SpinFillOfCall.value = cOut.out.value

\* the two agree on every event set without a spin rate outside the regular
\* season
SpinAgreeOnRegularOnly ==
    (SpinCallOnData /\ \A k \in DOMAIN cIn.resp.rows :
                          cIn.resp.rows[k].game_type # "R" =>
                              cIn.resp.rows[k].release_spin_rate = NA)
        => SpinFillOfCall.value = cOut.out.value

-----------------------------------------------------------------------------
(* Claims about the bookkeeping of the fill script (Spec) *)

\* sum(stats['fields_filled'].values())
RECURSIVE SumCounters(_)
SumCounters(f) ==
    IF DOMAIN f = {} THEN 0
    ELSE LET c == CHOOSE c \in DOMAIN f : TRUE
         IN f[c] + SumCounters([d \in DOMAIN f \ {c} |-> f[d]])

\* the cells of row i that were missing at load and hold a value now
CellsFilled(i) ==
    {c \in DOMAIN table[i] : ~notna(tableAtStart[i][c]) /\ notna(table[i][c])}

\* the counters match the cells: every change of the table is a missing cell
\* that got a value, each counted once under its column, and a player is
\* listed exactly when one of its cells was filled
CountersMatchCells ==
    /\ \A i \in Rows : \A c \in DOMAIN table[i] :
          table[i][c] # tableAtStart[i][c] => c \in CellsFilled(i)
    /\ \A c \in file.cols :
          Cardinality({i \in Rows : c \in CellsFilled(i)})
              = (IF c \in DOMAIN stats.fields_filled THEN stats.fields_filled[c] ELSE 0)
    /\ \A i \in Rows : (roster[i].Name \in stats.players_updated) = (CellsFilled(i) # {})

\* the totals match: missing before minus missing after is the sum of the
\* counters
TotalsMatchCounters ==
    stats.total_missing_before - stats.total_missing_after
        = SumCounters(stats.fields_filled)

\* C30 as stated: when the fill script has ended, every True return stands
\* for one missing cell that got a value and nothing else changed,
\* total_missing_before minus total_missing_after equals the sum of the
\* fields_filled counters, and a player is in players_updated exactly when
\* one of its cells was filled.
C30_FillAccounting ==
    (prog = "fill" /\ pc \in {"done", "crashed"}) =>
        CountersMatchCells /\ TotalsMatchCounters

\* the same in the runs that reach the write
AccountingOfCompletedRuns ==
    (prog = "fill" /\ pc = "done") => CountersMatchCells /\ TotalsMatchCounters

\* the run ended in an exception after a cell of the row had been filled
FilledThenRaised ==
    \E i \in Rows : prog = "fill" /\ pc = "crashed" /\ status[i] = "raised"
                    /\ CellsFilled(i) # {}

====
